---------------------------- MODULE Spec2Model ----------------------------
(***************************************************************************)
(* Battleship server (src/server.py), turn engine and board                *)
(* (src/battleship.py), client (src/client.py).                            *)
(*                                                                         *)
(* Text is a sequence of code points, a frame a sequence of bytes.         *)
(*                                                                         *)
(* Spec           run_multi_player_game_online, entered with its declared  *)
(*                parameters bound the way main names them (conn1, conn2,  *)
(*                user ids 1 and 2, wait_for_reconnection =                *)
(*                handle_lobby_connections, receive_packet =               *)
(*                receive_packet).                                         *)
(* SpecReconnect  the same match next to the lobby acceptor thread.        *)
(* SpecServer     main's pairing loop next to the lobby acceptor thread.   *)
(* SpecServerLive the same, each thread taking the steps it can take.      *)
(* SpecMatches    the same match, run in main's thread, next to the lobby  *)
(*                acceptor thread that queues new players.                 *)
(* SpecCodec      create_packet and parse_packet on their own.             *)
(* SpecBoard      one Board: place_ships_randomly, then fire_at.           *)
(* SpecReader     receive_packet on a byte stream that arrives in pieces.  *)
(* SpecClient     one client (src/client.py): its main thread and its      *)
(*                receiver thread, with the server at the other end.       *)
(***************************************************************************)
EXTENDS Integers, Sequences, FiniteSets, TLC

(***************************************************************************)
(* Bounds of the model.                                                    *)
(***************************************************************************)
\* battleship.py:5 sets BOARD_SIZE = 10; the model bounds the grid.
BOARD_SIZE == 2
\* the client numbers its frames 0, 1, ... (client.py:112-117)
MaxClientSeq == 0
\* connections the lobby acceptor takes while one match runs
MaxLobbyConns == 1
\* clients that connect to the server in SpecServer
MaxClients == 5

None == "None"

(***************************************************************************)
(* Text: a str is the sequence of its code points; the model's characters  *)
(* are the code points 0..255, and the str methods the code uses are given *)
(* as Python defines them there.                                           *)
(***************************************************************************)
Within(ch, lo, hi) == ch >= lo /\ ch <= hi

isupper(ch) == Within(ch, 65, 90) \/ Within(ch, 192, 214) \/ Within(ch, 216, 222)
islower(ch) == \/ Within(ch, 97, 122) \/ ch \in {170, 181, 186}
               \/ Within(ch, 223, 246) \/ Within(ch, 248, 255)
isalpha(ch) == isupper(ch) \/ islower(ch)
\* the superscripts 178, 179 and 185 are digits for str.isdigit
isdigitch(ch) == Within(ch, 48, 57) \/ ch \in {178, 179, 185}
isspace(ch) == Within(ch, 9, 13) \/ Within(ch, 28, 32) \/ ch \in {133, 160}

lower(t) == [i \in 1..Len(t) |-> IF isupper(t[i]) THEN t[i] + 32 ELSE t[i]]

\* str.upper() of one character
UpperCh(ch) ==
    IF ch = 223 THEN <<83, 83>>
    ELSE IF ch = 181 THEN <<924>>
    ELSE IF ch = 255 THEN <<376>>
    ELSE IF Within(ch, 97, 122) \/ Within(ch, 224, 246) \/ Within(ch, 248, 254)
    THEN <<ch - 32>>
    ELSE <<ch>>

RECURSIVE upper(_)
upper(t) == IF t = <<>> THEN t ELSE UpperCh(Head(t)) \o upper(Tail(t))

\* str.isdigit(): non-empty and every character a digit
isdigit(t) == Len(t) > 0 /\ \A i \in 1..Len(t) : isdigitch(t[i])

RECURSIVE lstrip(_)
lstrip(t) == IF t = <<>> THEN t
             ELSE IF isspace(Head(t)) THEN lstrip(Tail(t)) ELSE t

RECURSIVE rstrip(_)
rstrip(t) == IF t = <<>> THEN t
             ELSE IF isspace(t[Len(t)]) THEN rstrip(SubSeq(t, 1, Len(t) - 1))
             ELSE t

strip(t) == rstrip(lstrip(t))

RECURSIVE Decimal(_)
Decimal(t) == IF t = <<>> THEN 0
              ELSE 10 * Decimal(SubSeq(t, 1, Len(t) - 1)) + (t[Len(t)] - 48)

\* int() of a string for which isdigit() holds: it raises ValueError when a
\* character is a digit for isdigit but not a decimal digit
int(t) == IF \E i \in 1..Len(t) : ~Within(t[i], 48, 57)
          THEN [raised |-> TRUE, value |-> 0]
          ELSE [raised |-> FALSE, value |-> Decimal(t)]

(***************************************************************************)
(* Packet codec (server.py).                                               *)
(***************************************************************************)
SHARED_KEY == 13

caesar_encrypt(text, shift) ==
    [i \in 1..Len(text) |->
        IF isalpha(text[i])
        THEN LET shift_base == IF isupper(text[i]) THEN 65 ELSE 97
             IN  ((text[i] - shift_base + shift) % 26) + shift_base
        ELSE text[i]]

caesar_decrypt(text, shift) == caesar_encrypt(text, 0 - shift)

\* 32-bit words are pairs <<high 16 bits, low 16 bits>>
\* exclusive or of two 4-bit numbers, bit by bit
Xor4(a, b) == ((a + b) % 2)
              + 2 * (((a \div 2) + (b \div 2)) % 2)
              + 4 * (((a \div 4) + (b \div 4)) % 2)
              + 8 * (((a \div 8) + (b \div 8)) % 2)
\* exclusive or of two 16-bit numbers
Xor16(a, b) == Xor4(a % 16, b % 16)
               + 16 * Xor4((a \div 16) % 16, (b \div 16) % 16)
               + 256 * Xor4((a \div 256) % 16, (b \div 256) % 16)
               + 4096 * Xor4(a \div 4096, b \div 4096)

XorW(v, w) == <<Xor16(v[1], w[1]), Xor16(v[2], w[2])>>
Shr1(w) == <<w[1] \div 2, (w[2] \div 2) + (w[1] % 2) * 32768>>
\* 0xEDB88320, the reflected CRC-32 polynomial of zlib
CrcPoly == <<60856, 33568>>
CrcOnes == <<65535, 65535>>

\* the register after one bit
CrcBit(w) == IF w[2] % 2 = 1 THEN XorW(Shr1(w), CrcPoly) ELSE Shr1(w)

\* the register after k bits; each step is evaluated before the next
RECURSIVE CrcBits(_, _)
CrcBits(w, k) ==
    IF k = 0 THEN w
    ELSE CHOOSE out \in {CrcBits(reg, k - 1) : reg \in {CrcBit(w)}} : TRUE

\* the register after the bytes, one byte at a time
RECURSIVE CrcFeed(_, _)
CrcFeed(w, bytes) ==
    IF bytes = <<>> THEN w
    ELSE CHOOSE out \in {CrcFeed(reg, Tail(bytes)) :
                             reg \in {CrcBits(XorW(w, <<0, Head(bytes)>>), 8)}} : TRUE

\* zlib.crc32(bytes), as a 32-bit word
crc32(bytes) == XorW(CrcFeed(CrcOnes, bytes), CrcOnes)

\* struct.pack('!H', n), struct.pack('!B', n), struct.pack('!I', n)
PackH(n) == <<n \div 256, n % 256>>
PackB(n) == <<n>>
PackI(n) == <<n \div 16777216, (n \div 65536) % 256, (n \div 256) % 256, n % 256>>
PackW(w) == <<w[1] \div 256, w[1] % 256, w[2] \div 256, w[2] % 256>>
UnpackH(b) == b[1] * 256 + b[2]
UnpackW(b) == <<b[1] * 256 + b[2], b[3] * 256 + b[4]>>
\* the payload length of a header, when it fits the model's integers
UnpackI(b) == IF b[1] >= 128 THEN 2147483647
              ELSE ((b[1] * 256 + b[2]) * 256 + b[3]) * 256 + b[4]

\* str.encode('utf-8'), for code points below 2048: one byte below 128, two
\* bytes from there on
RECURSIVE encode_utf8(_)
encode_utf8(text) ==
    IF text = <<>> THEN <<>>
    ELSE (IF Head(text) < 128 THEN <<Head(text)>>
          ELSE <<192 + (Head(text) \div 64), 128 + (Head(text) % 64)>>)
         \o encode_utf8(Tail(text))

\* bytes.decode('utf-8') does not raise; sequences of three and four bytes
\* are outside the characters of the model
RECURSIVE decodable_utf8(_)
decodable_utf8(bytes) ==
    IF bytes = <<>> THEN TRUE
    ELSE IF bytes[1] < 128 THEN decodable_utf8(Tail(bytes))
    ELSE IF Within(bytes[1], 194, 223) /\ Len(bytes) >= 2
            /\ Within(bytes[2], 128, 191)
    THEN decodable_utf8(SubSeq(bytes, 3, Len(bytes)))
    ELSE FALSE

\* bytes.decode('utf-8') of bytes it does not raise on
RECURSIVE decode_utf8(_)
decode_utf8(bytes) ==
    IF bytes = <<>> THEN <<>>
    ELSE IF bytes[1] < 128 THEN <<bytes[1]>> \o decode_utf8(Tail(bytes))
    ELSE <<(bytes[1] - 192) * 64 + (bytes[2] - 128)>>
         \o decode_utf8(SubSeq(bytes, 3, Len(bytes)))

create_packet(sequence_number, packet_type, payload) ==
    LET encrypted_payload == caesar_encrypt(payload, SHARED_KEY)
        payload_bytes == encode_utf8(encrypted_payload)
        payload_length == Len(payload_bytes)
        header == PackH(sequence_number) \o PackB(packet_type) \o PackI(payload_length)
        checksum == crc32(header \o payload_bytes)
    IN  header \o PackW(checksum) \o payload_bytes

\* packet[a:b] of Python, 0-based and clipped to the length
Slice(s, a, b) == SubSeq(s, a + 1, IF b > Len(s) THEN Len(s) ELSE b)

\* None, or <<sequence_number, packet_type, payload>>
parse_packet(packet) ==
    LET header == Slice(packet, 0, 7)
        cks == Slice(packet, 7, 11)
        encrypted_payload == Slice(packet, 11, Len(packet))
    IN  IF Len(cks) < 4 THEN None                       \* struct.error
        ELSE IF UnpackW(cks) # crc32(header \o encrypted_payload) THEN None
        ELSE IF Len(header) < 7 THEN None               \* struct.error
        ELSE IF ~decodable_utf8(encrypted_payload) THEN None
        ELSE <<UnpackH(header), header[3],
               caesar_decrypt(decode_utf8(encrypted_payload), SHARED_KEY)>>


(***************************************************************************)
(* Transport reader (server.py receive_packet).  What a socket delivers to *)
(* one call is the bytes that arrive and what the socket does once they    *)
(* are used up: the timeout expires, the peer has closed (recv returns     *)
(* b''), or recv raises ConnectionResetError.                              *)
(***************************************************************************)
Min(a, b) == IF a < b THEN a ELSE b

\* None, or <<sequence_number, packet_type, payload>>
receive_packet(ev) ==
    IF Len(ev.bytes) < 11
    THEN None     \* lines 206-211, and 231-233 for the reset
    ELSE LET header_and_checksum == SubSeq(ev.bytes, 1, 11)
             payload_length == UnpackI(SubSeq(header_and_checksum, 4, 7))
             arrived == Len(ev.bytes) - 11
             payload == SubSeq(ev.bytes, 12, 11 + Min(payload_length, arrived))
         IN  IF arrived < payload_length /\ ev.then # "closed"
             THEN None                                  \* lines 222-224, 231-233
             ELSE parse_packet(header_and_checksum \o payload)

(***************************************************************************)
(* The texts clients send, and the frames that carry them.                 *)
(***************************************************************************)
T_A1 == <<65, 49>>
T_A2 == <<65, 50>>
T_b1 == <<98, 49>>
T_Z9 == <<90, 57>>
T_H == <<72>>
T_V == <<86>>
T_quit == <<113, 117, 105, 116>>
T_empty == <<>>
T_new == <<110, 101, 119>>
T_n == <<110>>
T_spectator == <<115, 112, 101, 99, 116, 97, 116, 111, 114>>
T_s == <<115>>
T_y == <<121>>
T_1 == <<49>>
\* superscript two: a digit for str.isdigit, not for int
T_sup2 == <<178>>
\* what secrets.token_hex gives the two players of a match
T_tokA == <<97, 49>>
T_tokB == <<98, 50>>

\* replies of a player to the engine's prompts
PlayerTexts == {T_A1, T_A2, T_b1, T_Z9, T_H, T_quit, T_empty}
\* replies of the players of a match that ends in a disconnect
MatchTexts == {T_A1, T_b1, T_H, T_quit}
\* replies of a client to the lobby's prompts
ReconnectTexts == {T_1, T_tokA, T_tokB}
LobbyTexts == {T_new, T_spectator, T_1, T_Z9, T_sup2}
\* answers of a spectator to "Do you want to play the next game? (y/n):"
SpectatorTexts == {T_y, T_n}

\* client.py:116 sends every reply as type 6
ClientFrame(seq, text) == create_packet(seq, 6, text)

\* one byte of a frame flipped (packet[i] ^= 0xFF, i 0-based)
Corrupt(packet, i) == [k \in 1..Len(packet) |->
                          IF k = i + 1 THEN 255 - packet[k] ELSE packet[k]]

FrameEvents(texts) ==
    {[bytes |-> ClientFrame(q, t), then |-> "timeout"] :
        q \in 0..MaxClientSeq, t \in texts}
\* frames with one byte flipped: the first byte of the checksum, or the first
\* byte of the payload
CorruptEvents(texts) ==
    {[bytes |-> Corrupt(ClientFrame(0, t), 7), then |-> "timeout"] : t \in texts}
    \cup {[bytes |-> Corrupt(ClientFrame(0, t), 11), then |-> "timeout"] :
        t \in {x \in texts : Len(x) > 0}}
SilentEvents == {[bytes |-> <<>>, then |-> w] : w \in {"timeout", "closed", "reset"}}

\* the replies of a player that arrive damaged
DamagedTexts == {T_A1, T_H}

\* what can arrive when the server reads a reply, complete or damaged
PlayerEvents == FrameEvents(PlayerTexts) \cup CorruptEvents(DamagedTexts)
MatchEvents == FrameEvents(MatchTexts)
ReconnectEvents == FrameEvents(ReconnectTexts) \cup CorruptEvents(ReconnectTexts)
LobbyEvents == FrameEvents(LobbyTexts) \cup CorruptEvents(LobbyTexts)
SpectatorEvents == FrameEvents(SpectatorTexts) \cup CorruptEvents(SpectatorTexts)

\* clients that ask the lobby for a place as a player
NewEvents == FrameEvents({T_new})

AllTexts == PlayerTexts \cup ReconnectTexts \cup LobbyTexts \cup SpectatorTexts
IntactEvents == FrameEvents(AllTexts)
AllEvents == PlayerEvents \cup ReconnectEvents \cup LobbyEvents
             \cup SpectatorEvents \cup SilentEvents

\* receive_packet on every event of the model
ReceiveTable == [ev \in AllEvents |-> receive_packet(ev)]

EvKind(ev) == IF ev.bytes = <<>> THEN ev.then
              ELSE IF ev \in IntactEvents THEN "frame" ELSE "corrupt"

(***************************************************************************)
(* Board (battleship.py).                                                  *)
(***************************************************************************)
\* battleship.py:6-7 lists five ships of sizes 5, 4, 3, 3, 2; the model keeps
\* the last two, shortened to fit the bounded grid
SHIPS == << <<"Submarine", 2>>, <<"Destroyer", 1>> >>

Idx == 0..(BOARD_SIZE - 1)
Cells == Idx \X Idx

\* Board.__init__
NewBoard == [hidden_grid  |-> [rc \in Cells |-> "."],
             display_grid |-> [rc \in Cells |-> "."],
             placed_ships |-> <<>>]

\* the cells range(col, col + ship_size) or range(row, row + ship_size) runs over
Run(row, col, ship_size, orientation) ==
    IF orientation = 0
    THEN {<<row, c>> : c \in col..(col + ship_size - 1)}
    ELSE {<<r, col>> : r \in row..(row + ship_size - 1)}

\* a wrong can_place_ship: it looks at the bounds and not at the cells
can_place_in_bounds(b, row, col, ship_size, orientation) ==
    IF orientation = 0 THEN col + ship_size <= BOARD_SIZE
    ELSE row + ship_size <= BOARD_SIZE

can_place_ship(b, row, col, ship_size, orientation) ==
    IF orientation = 0
    THEN IF col + ship_size > BOARD_SIZE THEN FALSE
         ELSE \A rc \in Run(row, col, ship_size, 0) : b.hidden_grid[rc] = "."
    ELSE IF row + ship_size > BOARD_SIZE THEN FALSE
         ELSE \A rc \in Run(row, col, ship_size, 1) : b.hidden_grid[rc] = "."

\* do_place_ship, and the append of placed_ships that follows every call
do_place_ship(b, row, col, ship_size, orientation, ship_name) ==
    LET occupied == Run(row, col, ship_size, orientation)
    IN  [hidden_grid  |-> [rc \in Cells |-> IF rc \in occupied THEN "S"
                                            ELSE b.hidden_grid[rc]],
         display_grid |-> [rc \in Cells |-> IF rc \in occupied THEN "S"
                                            ELSE b.display_grid[rc]],
         placed_ships |-> Append(b.placed_ships,
                                 [name |-> ship_name, positions |-> occupied])]

\* index of the first ship whose positions hold rc, 0 when none does
ShipAt(ships, rc) ==
    LET hit == {i \in 1..Len(ships) : rc \in ships[i].positions}
    IN  IF hit = {} THEN 0 ELSE CHOOSE i \in hit : \A j \in hit : i <= j

\* a wrong _mark_hit_and_check_sunk: it names the ship at every hit
mark_hit_and_name(ships, rc) ==
    LET i == ShipAt(ships, rc)
    IN  IF i = 0 THEN <<ships, None>>
        ELSE <<[ships EXCEPT ![i].positions = @ \ {rc}], ships[i].name>>

\* a wrong _mark_hit_and_check_sunk: the cell stays in the ship's positions
mark_hit_and_keep(ships, rc) ==
    LET i == ShipAt(ships, rc)
    IN  IF i = 0 THEN <<ships, None>>
        ELSE <<ships, IF ships[i].positions = {rc} THEN ships[i].name ELSE None>>

\* <<placed_ships after the removal, name of the ship it sank or None>>
mark_hit_and_check_sunk(ships, rc) ==
    LET i == ShipAt(ships, rc)
    IN  IF i = 0 THEN <<ships, None>>
        ELSE LET left == ships[i].positions \ {rc}
             IN  <<[ships EXCEPT ![i].positions = left],
                   IF left = {} THEN ships[i].name ELSE None>>

\* a wrong fire_at: a cell revealed as a miss can be fired at again
fire_at_again(b, row, col) ==
    LET rc == <<row, col>>
        cell == b.hidden_grid[rc]
    IN  IF cell = "S"
        THEN LET m == mark_hit_and_check_sunk(b.placed_ships, rc)
             IN  [board |-> [hidden_grid  |-> [b.hidden_grid EXCEPT ![rc] = "X"],
                             display_grid |-> [b.display_grid EXCEPT ![rc] = "X"],
                             placed_ships |-> m[1]],
                  result |-> "hit", sunk_ship_name |-> m[2]]
        ELSE IF cell \in {".", "o"}
        THEN [board |-> [b EXCEPT !.hidden_grid[rc] = "o", !.display_grid[rc] = "o"],
              result |-> "miss", sunk_ship_name |-> None]
        ELSE [board |-> b, result |-> "already_shot", sunk_ship_name |-> None]

\* a wrong fire_at: a shot at a cell revealed as a hit turns it into a miss
fire_at_unmark(b, row, col) ==
    LET rc == <<row, col>>
        cell == b.hidden_grid[rc]
    IN  IF cell = "S"
        THEN LET m == mark_hit_and_check_sunk(b.placed_ships, rc)
             IN  [board |-> [hidden_grid  |-> [b.hidden_grid EXCEPT ![rc] = "X"],
                             display_grid |-> [b.display_grid EXCEPT ![rc] = "X"],
                             placed_ships |-> m[1]],
                  result |-> "hit", sunk_ship_name |-> m[2]]
        ELSE IF cell \in {".", "X"}
        THEN [board |-> [b EXCEPT !.hidden_grid[rc] = "o", !.display_grid[rc] = "o"],
              result |-> "miss", sunk_ship_name |-> None]
        ELSE [board |-> b, result |-> "already_shot", sunk_ship_name |-> None]

\* [board, result, sunk_ship_name]
fire_at(b, row, col) ==
    LET rc == <<row, col>>
        cell == b.hidden_grid[rc]
    IN  IF cell = "S"
        THEN LET m == mark_hit_and_check_sunk(b.placed_ships, rc)
             IN  [board |-> [hidden_grid  |-> [b.hidden_grid EXCEPT ![rc] = "X"],
                             display_grid |-> [b.display_grid EXCEPT ![rc] = "X"],
                             placed_ships |-> m[1]],
                  result |-> "hit", sunk_ship_name |-> m[2]]
        ELSE IF cell = "."
        THEN [board |-> [b EXCEPT !.hidden_grid[rc] = "o", !.display_grid[rc] = "o"],
              result |-> "miss", sunk_ship_name |-> None]
        ELSE [board |-> b, result |-> "already_shot", sunk_ship_name |-> None]

\* the character of a cell, as a code point
CellCode(ch) == IF ch = "S" THEN 83 ELSE IF ch = "X" THEN 88
                ELSE IF ch = "o" THEN 111 ELSE 46

\* str(n) for 0 <= n < 100, and str.rjust(2)
StrOf(n) == IF n < 10 THEN <<48 + n>> ELSE <<48 + (n \div 10), 48 + (n % 10)>>
rjust2(t) == IF Len(t) < 2 THEN <<32>> \o t ELSE t

RECURSIVE HeaderText(_)
HeaderText(i) ==
    IF i >= BOARD_SIZE THEN <<>> ELSE rjust2(StrOf(i + 1)) \o HeaderText(i + 1)

\* " ".join(grid[r][c] for c in range(size)), from column c on
RECURSIVE RowCells(_, _, _)
RowCells(grid, r, c) ==
    IF c >= BOARD_SIZE THEN <<>>
    ELSE (IF c > 0 THEN <<32>> ELSE <<>>) \o <<CellCode(grid[<<r, c>>])>>
         \o RowCells(grid, r, c + 1)

\* the lines f"{row_label:2} {row_str}\n", from row r on
RECURSIVE RowsText(_, _)
RowsText(grid, r) ==
    IF r >= BOARD_SIZE THEN <<>>
    ELSE <<65 + r, 32, 32>> \o RowCells(grid, r, 0) \o <<10>>
         \o RowsText(grid, r + 1)

\* Board.get_display_grid: the text sent to players and spectators
get_display_grid(b) ==
    <<32, 32>> \o HeaderText(0) \o <<10>> \o RowsText(b.display_grid, 0)

\* the character a text of get_display_grid shows for the cell rc
ShownAt(text, rc) ==
    text[(2 + 2 * BOARD_SIZE + 1) + rc[1] * (3 + 2 * BOARD_SIZE) + 3 + 2 * rc[2] + 1]

\* a wrong all_ships_sunk: true as soon as one ship has no position left
some_ship_sunk(b) ==
    \E i \in 1..Len(b.placed_ships) : b.placed_ships[i].positions = {}

\* Board.all_ships_sunk
all_ships_sunk(b) ==
    \A i \in 1..Len(b.placed_ships) : b.placed_ships[i].positions = {}

\* <<row, col>>, or "ValueError"
parse_coordinate(coord_str) ==
    LET s == upper(strip(coord_str))
    IN  IF s = <<>> THEN "ValueError"                   \* IndexError on s[0]
        ELSE LET row_letter == s[1]
                 col_digits == Tail(s)
             IN  IF row_letter < 65 \/ row_letter > 65 + BOARD_SIZE - 1
                 THEN "ValueError"
                 ELSE IF ~isdigit(col_digits) \/ Len(col_digits) < 1
                         \/ Len(col_digits) > 2
                 THEN "ValueError"
                 ELSE IF int(col_digits).raised THEN "ValueError"
                 ELSE LET row == row_letter - 65
                          col == int(col_digits).value - 1
                      IN  IF row < 0 \/ row >= BOARD_SIZE \/ col < 0
                             \/ col >= BOARD_SIZE
                          THEN "ValueError"
                          ELSE <<row, col>>


(***************************************************************************)
(* State.                                                                  *)
(***************************************************************************)
VARIABLES
    pc,                   \* where the engine is: "idle" (not called),
                          \* "place_coord", "place_orient" (blocked in the
                          \* receives of lines 84 and 104), "fire" (blocked in
                          \* the receive of line 434 or 560), "disc" (in the
                          \* disconnect handler, before wait_for_reconnection),
                          \* "done" (returned)
    place,                \* placement in progress: player, ship index, coordinate
    board,                \* board[1] = board1, board[2] = board2
    freshBoard,           \* freshBoard[1] = freshBoard1, freshBoard[2] = freshBoard2
    current_turn,
    timeout_counts,
    missed,               \* history: missed[n] = the receive of a turn of player
                          \* n has timed out since n's last shot that was
                          \* resolved by fire_at
    game_running,
    conn,                 \* conn[1] = conn1, conn[2] = conn2 of the engine
    user_id,              \* user_id[1] = user_id1, user_id[2] = user_id2
    connStatus,           \* per connection: "none", "open", "silent" (open,
                          \* and the peer never sends), "peer_closed" (the
                          \* peer closed or reset it), "closed" (the server
                          \* called close())
    active_players,       \* server.py:54
    disconnected_players, \* server.py:53
    saved_file,           \* content of game_state.pkl
    outbox,               \* what the last step of the engine sent, in order
    elast,                \* what the last step of the engine was
    lpc,                  \* lobby thread: "accept", "classify" (blocked in the
                          \* receive of line 309), "token" (line 322),
                          \* "spectator" (line 354), "spectator_notify" (line
                          \* 356), "notifying" (inside notify_spectators, with
                          \* spectators_lock), "dead"
    lconn,                \* the connection the lobby thread talks to
    luser,                \* user_id of the reconnection it handles
    llast,                \* what the last step of the lobby thread was
    nextConn,             \* connections accepted so far, plus one
    player_queue,         \* server.py:50
    spectators,           \* server.py:49
    unique_id_counter,    \* server.py:51
    resume_threads,       \* resume_game threads started (server.py:340-344)
    issued,               \* the token main generated for each user id
    mpc,                  \* main thread: "wait_pair" (lines 630-632), "in_game"
                          \* (inside the engine), "ask" (inside
                          \* ask_spectators_to_play), "promote" (line 727),
                          \* "promote_ids" (line 733), "join" (line 748),
                          \* "returned" (main is over)
    ask_i,                \* position of the for loop of line 269
    willing_spectators,   \* server.py:267
    spectators_lock,      \* server.py:55: "free", or the thread that holds it
    mlast,                \* what the last step of main's loop was
    user_id_a,            \* server.py:732, 0 before the assignment
    codec,                \* a frame in the making: the arguments given to
                          \* create_packet, the packet, what parse_packet
                          \* makes of it
    client                \* one client process (client.py): its globals, the
                          \* positions of its two threads, its socket

engineVars == <<pc, place, board, freshBoard, current_turn, timeout_counts,
                missed, game_running, conn, user_id, saved_file, outbox, elast>>
lobbyVars == <<lpc, lconn, luser, llast, nextConn, player_queue, spectators,
               unique_id_counter, resume_threads>>
vars == <<pc, place, board, freshBoard, current_turn, timeout_counts,
          missed, game_running, conn, user_id, connStatus, active_players,
          disconnected_players, saved_file, outbox, elast, lpc, lconn, luser,
          llast, nextConn, player_queue, spectators, unique_id_counter,
          resume_threads, issued, mpc, ask_i, willing_spectators,
          spectators_lock, mlast, user_id_a, codec, client>>
mainVars == <<mpc, ask_i, willing_spectators, spectators_lock, mlast,
              user_id_a>>

ConnIds == 1..(MaxClients + MaxLobbyConns + 2)
UserIds == 1..(MaxClients + 2)

Other(n) == 3 - n

(***************************************************************************)
(* Sending.  sendall on a socket the server has closed raises OSError and  *)
(* nothing is sent; on any other socket the frame is handed to the         *)
(* connection.                                                             *)
(***************************************************************************)
\* a message is a tuple, its tag first; connection 0 stands for the call of
\* notify_spectators
Msg(to, tag) == [to |-> to, msg |-> tag]

\* send_to_player (battleship.py:357-362): exceptions of send_packet are caught
send_to_player(cs, c, tag) ==
    IF c = 0 \/ cs[c] = "closed" THEN <<>> ELSE <<Msg(c, tag)>>

\* send_to_both (battleship.py:364-366)
send_to_both(cs, cn, tag) ==
    send_to_player(cs, cn[1], tag) \o send_to_player(cs, cn[2], tag)

\* the engine's calls of notify_spectators
notify(tag) == <<Msg(0, tag)>>

\* what a receive on connection c can meet; timed: settimeout was called.  A
\* receive without timeout on a connection whose peer never sends meets
\* nothing: the thread stays in recv
RecvEvents(c, frames, timed) ==
    IF connStatus[c] = "open"
    THEN frames \cup {e \in SilentEvents : timed \/ e.then # "timeout"}
    ELSE IF connStatus[c] = "silent"
    THEN {e \in SilentEvents : timed /\ e.then = "timeout"}
    ELSE {e \in SilentEvents : e.then = (IF connStatus[c] = "peer_closed"
                                         THEN "closed" ELSE "reset")}

\* the connection after the event
AfterEvent(c, ev) ==
    IF ev.bytes = <<>> /\ ev.then \in {"closed", "reset"} /\ connStatus[c] = "open"
    THEN [connStatus EXCEPT ![c] = "peer_closed"]
    ELSE connStatus

\* the reply read is the quit command, as client.py:115-120 sends it
EvQuit(ev) ==
    /\ ReceiveTable[ev] # None
    /\ lower(strip(ReceiveTable[ev][3])) = T_quit

Step(op, n, ev, outcome) ==
    [op |-> op, player |-> n, kind |-> EvKind(ev), outcome |-> outcome,
     quit |-> EvQuit(ev)]

(***************************************************************************)
(* Placement (battleship.py:62-139 called from 382-393).                   *)
(***************************************************************************)
\* lines 79-82: the prompt for a ship's coordinate
ShipPrompts(cs, c, k) ==
    send_to_player(cs, c, <<"placing", SHIPS[k][1]>>)
    \o send_to_player(cs, c, <<"enter_coord">>)

\* lines 72-75
PlacementIntro(cs, c) ==
    send_to_player(cs, c, <<"place_manually">>) \o send_to_player(cs, c, <<"your_board">>)

\* a wrong prompt: the firing board and the prompt go to the player who waits
FirePromptsSwapped(cs, cn, turn, fb) ==
    send_to_player(cs, cn[Other(turn)],
                   <<"firing_board", get_display_grid(fb[Other(turn)])>>)
    \o send_to_player(cs, cn[Other(turn)], <<"fire_prompt">>)
    \o send_to_player(cs, cn[turn], <<"waiting">>)
    \o notify(<<"turn", turn>>)

\* lines 427-430 and 553-556: the top of the fire loop
FirePrompts(cs, cn, turn, fb) ==
    send_to_player(cs, cn[turn],
                   <<"firing_board", get_display_grid(fb[Other(turn)])>>)
    \o send_to_player(cs, cn[turn], <<"fire_prompt">>)
    \o send_to_player(cs, cn[Other(turn)], <<"waiting">>)
    \o notify(<<"turn", turn>>)

\* place_ships_manually_with_clientandserver returned False: lines 383-385
\* and 391-393
PlacementQuit(n, ev, cs, sent, outcome) ==
    /\ pc' = "done"
    /\ outbox' = sent \o send_to_both(cs, conn, <<"game_over_quit", n>>)
                      \o notify(<<"game_over_quit", n>>)
    /\ elast' = Step("place", n, ev, outcome)
    /\ UNCHANGED <<place, board, freshBoard, current_turn, timeout_counts,
                   game_running, saved_file, active_players>>

\* the snapshot dictionaries of lines 402-411, 513-522 and 640-649
GameState(b, fb, turn, tc) ==
    [board |-> b, freshBoard |-> fb, current_turn |-> turn,
     timeout_counts |-> tc, user_id1 |-> user_id[1], user_id2 |-> user_id[2]]

PlaceCoord(frames) ==
    /\ pc = "place_coord"
    /\ LET n == place.player
           c == conn[n]
       IN \E ev \in RecvEvents(c, frames, FALSE) :
          \E packet \in {ReceiveTable[ev]}, cs \in {AfterEvent(c, ev)} :
          LET coord_str == packet[3]
          IN  /\ connStatus' = cs
              /\ IF packet = None
                 THEN PlacementQuit(n, ev, cs, <<>>, "no_packet")
                 ELSE IF lower(coord_str) = T_quit
                 THEN PlacementQuit(n, ev, cs, send_to_player(cs, c, <<"you_quit">>),
                                    "quit")
                 ELSE IF coord_str = <<>> \/ strip(coord_str) = <<>>
                 THEN /\ outbox' = send_to_player(cs, c, <<"invalid_input">>)
                                   \o ShipPrompts(cs, c, place.ship)
                      /\ elast' = Step("place", n, ev, "empty")
                      /\ UNCHANGED <<pc, place, board, freshBoard, current_turn,
                                     timeout_counts, game_running, saved_file,
                                     active_players>>
                 ELSE IF parse_coordinate(coord_str) = "ValueError"
                 THEN /\ outbox' = send_to_player(cs, c, <<"invalid_input">>)
                                   \o ShipPrompts(cs, c, place.ship)
                      /\ elast' = Step("place", n, ev, "invalid")
                      /\ UNCHANGED <<pc, place, board, freshBoard, current_turn,
                                     timeout_counts, game_running, saved_file,
                                     active_players>>
                 ELSE /\ pc' = "place_orient"
                      /\ place' = [place EXCEPT !.coord = parse_coordinate(coord_str)]
                      /\ outbox' = send_to_player(cs, c, <<"enter_orientation">>)
                      /\ elast' = Step("place", n, ev, "coord")
                      /\ UNCHANGED <<board, freshBoard, current_turn,
                                     timeout_counts, game_running, saved_file,
                                     active_players>>
    /\ UNCHANGED <<conn, user_id, disconnected_players, issued, missed>>
    /\ UNCHANGED mainVars
    /\ UNCHANGED lobbyVars
    /\ UNCHANGED <<codec, client>>

\* lines 418-419: the engine stores the sockets themselves
EngineActive(ap) ==
    [ap EXCEPT ![user_id[1]] = [kind |-> "socket", conn |-> conn[1]],
               ![user_id[2]] = [kind |-> "socket", conn |-> conn[2]]]

PlaceOrient(frames) ==
    /\ pc = "place_orient"
    /\ LET n == place.player
           c == conn[n]
           k == place.ship
       IN \E ev \in RecvEvents(c, frames, FALSE) :
          \E packet \in {ReceiveTable[ev]}, cs \in {AfterEvent(c, ev)} :
          LET orientation_str == upper(strip(packet[3]))
              orientation == IF orientation_str = T_H THEN 0 ELSE 1
              row == place.coord[1]
              col == place.coord[2]
              placed == do_place_ship(board[n], row, col, SHIPS[k][2],
                                      orientation, SHIPS[k][1])
              ok == send_to_player(cs, c, <<"placed">>)
                    \o send_to_player(cs, c, <<"updated_board">>)
          IN  /\ connStatus' = cs
              /\ IF packet = None
                 THEN PlacementQuit(n, ev, cs, <<>>, "no_packet")
                 ELSE IF orientation_str \notin {T_H, T_V}
                 THEN /\ pc' = "place_coord"
                      /\ outbox' = send_to_player(cs, c, <<"invalid_orientation">>)
                                   \o ShipPrompts(cs, c, k)
                      /\ elast' = Step("place", n, ev, "invalid_orientation")
                      /\ UNCHANGED <<place, board, freshBoard, current_turn,
                                     timeout_counts, game_running, saved_file,
                                     active_players>>
                 ELSE IF ~can_place_ship(board[n], row, col, SHIPS[k][2], orientation)
                 THEN /\ pc' = "place_coord"
                      /\ outbox' = send_to_player(cs, c, <<"cannot_place">>)
                                   \o ShipPrompts(cs, c, k)
                      /\ elast' = Step("place", n, ev, "cannot_place")
                      /\ UNCHANGED <<place, board, freshBoard, current_turn,
                                     timeout_counts, game_running, saved_file,
                                     active_players>>
                 ELSE IF k < Len(SHIPS)
                 THEN /\ pc' = "place_coord"
                      /\ place' = [place EXCEPT !.ship = k + 1]
                      /\ board' = [board EXCEPT ![n] = placed]
                      /\ outbox' = ok \o ShipPrompts(cs, c, k + 1)
                      /\ elast' = Step("place", n, ev, "placed")
                      /\ UNCHANGED <<freshBoard, current_turn, timeout_counts,
                                     game_running, saved_file, active_players>>
                 ELSE IF n = 1
                 THEN \* lines 137-139, 387-388 and the start of line 390
                      /\ pc' = "place_coord"
                      /\ place' = [player |-> 2, ship |-> 1, coord |-> None]
                      /\ board' = [board EXCEPT ![n] = placed]
                      /\ outbox' = ok \o send_to_player(cs, c, <<"final_board">>)
                                   \o send_to_player(cs, c, <<"wait_for_player2">>)
                                   \o notify(<<"player1_placed">>)
                                   \o PlacementIntro(cs, conn[2])
                                   \o ShipPrompts(cs, conn[2], 1)
                      /\ elast' = Step("place", n, ev, "placed_all")
                      /\ UNCHANGED <<freshBoard, current_turn, timeout_counts,
                                     game_running, saved_file, active_players>>
                 ELSE \* lines 137-139, 395-421 and the first prompt of the loop
                      LET b == [board EXCEPT ![n] = placed]
                          fb == [i \in 1..2 |-> NewBoard]
                          tc == [i \in 1..2 |-> 0]
                      IN  /\ pc' = "fire"
                          /\ place' = [player |-> 0, ship |-> 0, coord |-> None]
                          /\ board' = b
                          /\ freshBoard' = fb
                          /\ current_turn' = 1
                          /\ timeout_counts' = tc
                          /\ saved_file' = <<GameState(b, fb, 1, tc)>>
                          /\ active_players' = EngineActive(active_players)
                          /\ game_running' = TRUE
                          /\ outbox' = ok \o send_to_player(cs, c, <<"final_board">>)
                                       \o send_to_both(cs, conn, <<"game_starting">>)
                                       \o notify(<<"game_starting">>)
                                       \o FirePrompts(cs, conn, 1, fb)
                          /\ elast' = Step("place", n, ev, "placed_all")
    /\ UNCHANGED <<conn, user_id, disconnected_players, issued, missed>>
    /\ UNCHANGED mainVars
    /\ UNCHANGED lobbyVars
    /\ UNCHANGED <<codec, client>>

(***************************************************************************)
(* Fire phase (battleship.py:424-684).                                     *)
(***************************************************************************)
Absent == [kind |-> "absent"]

\* active_players.pop(user_id, None)
Pop(ap, uid) == [ap EXCEPT ![uid] = Absent]

\* the finally clause, lines 680-684
Finally(cs, cn) == send_to_both(cs, cn, <<"game_ended">>)

\* the connection the notice of an invalid coordinate goes to: conn1 in
\* line 506 and again conn1 in line 633
InvalidNoticeConn(n) == conn[1]

\* a wrong mark: the observer board gets a hit whatever the shot did
ObserverMarkHit(fb, rc, result) == [fb EXCEPT !.display_grid[rc] = "X"]

\* lines 477-478 and 485-486 (603-604, 611-612): the opponent's observer
\* board gets the mark of a hit or a miss
ObserverMark(fb, rc, result) ==
    [fb EXCEPT !.display_grid[rc] = IF result = "hit" THEN "X" ELSE "o"]

\* the engine leaves the loop and returns through the finally clause
EngineReturns(cs, sent) ==
    /\ pc' = "done"
    /\ game_running' = FALSE
    /\ outbox' = sent \o Finally(cs, conn)
    /\ active_players' = Pop(Pop(active_players, user_id[1]), user_id[2])

\* a wrong loop: the turn passes on whoever was to be prompted
EngineLoopsOther(cs, sent, turn) ==
    /\ pc' = "fire"
    /\ current_turn' = Other(current_turn)
    /\ outbox' = sent \o FirePrompts(cs, conn, Other(current_turn), freshBoard)
    /\ UNCHANGED <<game_running, active_players>>

\* a wrong loop: the turn stays with the player who had it
EngineLoopsSame(cs, sent, turn) ==
    /\ pc' = "fire"
    /\ current_turn' = current_turn
    /\ outbox' = sent \o FirePrompts(cs, conn, current_turn, freshBoard)
    /\ UNCHANGED <<game_running, active_players>>

\* `continue`, or the end of the loop body: the next iteration prompts `turn`
EngineLoops(cs, sent, turn) ==
    /\ pc' = "fire"
    /\ current_turn' = turn
    /\ outbox' = sent \o FirePrompts(cs, conn, turn, freshBoard)
    /\ UNCHANGED <<game_running, active_players>>

Fire(frames) ==
    /\ pc = "fire"
    /\ LET n == current_turn
           o == Other(current_turn)
           c == conn[n]
       IN \E ev \in RecvEvents(c, frames, TRUE) :
          \E packet \in {ReceiveTable[ev]}, cs \in {AfterEvent(c, ev)} :
          \E guess \in {IF packet = None THEN <<>> ELSE packet[3]} :
          \E rc \in {parse_coordinate(guess)} :
          \E shot \in {IF rc = "ValueError" THEN [result |-> "none"]
                       ELSE fire_at(board[o], rc[1], rc[2])} :
          LET reset == [timeout_counts EXCEPT ![n] = 0]
              quits == packet # None /\ strip(guess) # <<>> /\ lower(guess) = T_quit
              fired == packet # None /\ strip(guess) # <<>> /\ ~quits
                       /\ rc # "ValueError"
          IN  /\ connStatus' = IF quits THEN [cs EXCEPT ![c] = "closed"] ELSE cs
              /\ missed' = IF EvKind(ev) = "timeout"
                            THEN [missed EXCEPT ![n] = TRUE]
                            ELSE IF fired THEN [missed EXCEPT ![n] = FALSE]
                            ELSE missed
              /\ IF packet = None
                 THEN \* lines 436-448, 562-574
                      LET tc == [timeout_counts EXCEPT ![n] = @ + 1]
                      IN  /\ timeout_counts' = tc
                          /\ UNCHANGED <<board, freshBoard, disconnected_players,
                                         saved_file>>
                          /\ IF tc[n] = 1
                             THEN /\ EngineLoops(cs,
                                        send_to_both(cs, conn, <<"too_long", n>>)
                                        \o notify(<<"too_long", n>>), o)
                                  /\ elast' = Step("fire", n, ev, "skip")
                             ELSE IF tc[n] = 2
                             THEN /\ EngineReturns(cs,
                                        send_to_both(cs, conn, <<"forfeit", n>>)
                                        \o notify(<<"forfeit", n>>))
                                  /\ elast' = Step("fire", n, ev, "forfeit")
                                  /\ UNCHANGED current_turn
                             ELSE /\ EngineLoops(cs, <<>>, n)
                                  /\ elast' = Step("fire", n, ev, "no_packet")
                 ELSE IF guess = <<>> \/ strip(guess) = <<>>
                 THEN \* lines 466-468, 592-594
                      /\ EngineLoops(cs, send_to_player(cs, c, <<"invalid_input">>), n)
                      /\ elast' = Step("fire", n, ev, "empty")
                      /\ UNCHANGED <<board, freshBoard, timeout_counts,
                                     disconnected_players, saved_file>>
                 ELSE IF quits
                 THEN \* lines 469-470 raise; lines 510-525 (637-652) catch
                      \* and close the socket
                      /\ pc' = "disc"
                      /\ outbox' = send_to_player(cs, conn[o], <<"disconnected", n>>)
                      /\ disconnected_players' =
                            [disconnected_players EXCEPT
                                ![user_id[n]] = [present |-> TRUE, conn |-> c]]
                      /\ saved_file' = <<GameState(board, freshBoard, current_turn,
                                                  timeout_counts)>>
                      /\ elast' = Step("fire", n, ev, "quit")
                      /\ UNCHANGED <<board, freshBoard, current_turn, timeout_counts,
                                     game_running, active_players>>
                 ELSE IF rc = "ValueError"
                 THEN \* lines 472-475 and 504-508, 598-601 and 631-635
                      /\ timeout_counts' = reset
                      /\ EngineLoops(cs, send_to_player(cs, InvalidNoticeConn(n),
                                                        <<"invalid_coordinate">>), n)
                      /\ elast' = Step("fire", n, ev, "invalid")
                      /\ UNCHANGED <<board, freshBoard, disconnected_players,
                                     saved_file>>
                 ELSE IF shot.result = "already_shot"
                 THEN \* lines 489-491, 615-617
                      /\ timeout_counts' = reset
                      /\ EngineLoops(cs, send_to_player(cs, c, <<"already_shot">>), n)
                      /\ elast' = Step("fire", n, ev, "already_shot")
                      /\ UNCHANGED <<board, freshBoard, disconnected_players,
                                     saved_file>>
                 ELSE \* lines 476-503, 602-629, and line 679
                      LET told == send_to_both(cs, conn,
                                      <<shot.result, n, shot.sunk_ship_name>>)
                                  \o notify(<<shot.result, n, shot.sunk_ship_name>>)
                                  \o send_to_player(cs, c,
                                        <<"firing_board",
                                          get_display_grid(ObserverMark(
                                              freshBoard[o], rc, shot.result))>>)
                                  \o notify(<<"board", n,
                                               get_display_grid(shot.board)>>)
                      IN  /\ timeout_counts' = reset
                          /\ board' = [board EXCEPT ![o] = shot.board]
                          /\ freshBoard' = [freshBoard EXCEPT ![o] =
                                               ObserverMark(@, rc, shot.result)]
                          /\ UNCHANGED <<disconnected_players, saved_file>>
                          /\ IF all_ships_sunk(shot.board)
                             THEN /\ EngineReturns(cs, told
                                        \o send_to_both(cs, conn, <<"wins", n>>)
                                        \o notify(<<"wins", n>>))
                                  /\ elast' = Step("fire", n, ev, "win")
                                  /\ UNCHANGED current_turn
                             ELSE /\ EngineLoops(cs, told, Other(current_turn))
                                  /\ elast' = Step("fire", n, ev, shot.result)
    /\ UNCHANGED <<place, conn, user_id, issued>>
    /\ UNCHANGED mainVars
    /\ UNCHANGED lobbyVars
    /\ UNCHANGED <<codec, client>>

(***************************************************************************)
(* Waiting for the reconnection (battleship.py:527-550, 654-677).          *)
(***************************************************************************)
\* parameters of handle_lobby_connections(server_socket), server.py:281
HandleLobbyParams == 1
\* arguments of wait_for_reconnection(server_socket, user_id1), battleship.py:528
WaitCallArgs == 2

\* what the call wait_for_reconnection(server_socket, user_id) comes to when
\* wait_for_reconnection is handle_lobby_connections (server.py:657): a
\* TypeError when the arguments do not fit; otherwise the `while True` of
\* server.py:304, which never returns
wait_for_reconnection(uid) ==
    IF WaitCallArgs # HandleLobbyParams THEN [kind |-> "TypeError", conn |-> 0]
    ELSE [kind |-> "blocks", conn |-> 0]

ReconnectWait ==
    /\ pc = "disc"
    /\ LET n == current_turn
           uid == user_id[n]
           got == wait_for_reconnection(uid)
           lost == send_to_both(connStatus, conn, <<"did_not_reconnect", n>>)
                   \o notify(<<"did_not_reconnect", n>>)
       IN  /\ got.kind # "blocks"
           /\ IF got.kind = "TypeError"
              THEN \* lines 543-549, then the finally clause
                   /\ pc' = "done"
                   /\ game_running' = FALSE
                   /\ outbox' = lost \o Finally(connStatus, conn)
                   /\ active_players' = Pop(Pop(active_players, user_id[1]),
                                            user_id[2])
                   /\ elast' = [op |-> "wait", player |-> n, kind |-> "TypeError",
                                outcome |-> "did_not_reconnect"]
                   /\ UNCHANGED <<conn, timeout_counts>>
              ELSE IF got.kind = "none"
              THEN \* lines 536-542, then the finally clause
                   /\ pc' = "done"
                   /\ game_running' = FALSE
                   /\ conn' = [conn EXCEPT ![n] = 0]
                   /\ outbox' = send_to_both(connStatus, [conn EXCEPT ![n] = 0],
                                             <<"did_not_reconnect", n>>)
                                \o notify(<<"did_not_reconnect", n>>)
                                \o Finally(connStatus, [conn EXCEPT ![n] = 0])
                   /\ active_players' = Pop(Pop(active_players, user_id[1]),
                                            user_id[2])
                   /\ elast' = [op |-> "wait", player |-> n, kind |-> "none",
                                outcome |-> "did_not_reconnect"]
                   /\ UNCHANGED timeout_counts
              ELSE \* lines 529-535 and 550: the loop goes on with the new socket
                   LET cn == [conn EXCEPT ![n] = got.conn]
                   IN  /\ pc' = "fire"
                       /\ conn' = cn
                       /\ active_players' =
                             [active_players EXCEPT
                                 ![uid] = [kind |-> "socket", conn |-> got.conn]]
                       /\ timeout_counts' = [timeout_counts EXCEPT ![n] = 0]
                       /\ outbox' = send_to_player(connStatus, got.conn,
                                                    <<"reconnected">>)
                                    \o send_to_both(connStatus, cn, <<"reconnected", n>>)
                                    \o notify(<<"reconnected", n>>)
                                    \o FirePrompts(connStatus, cn, current_turn,
                                                   freshBoard)
                       /\ elast' = [op |-> "wait", player |-> n, kind |-> "conn",
                                    outcome |-> "reconnected"]
                       /\ UNCHANGED game_running
    /\ UNCHANGED <<place, board, freshBoard, current_turn, user_id, connStatus,
                   disconnected_players, saved_file, issued, missed>>
    /\ UNCHANGED mainVars
    /\ UNCHANGED lobbyVars
    /\ UNCHANGED <<codec, client>>

(***************************************************************************)
(* Lobby acceptor thread (server.py:281-362).                              *)
(***************************************************************************)
InDisconnected(u) == u \in UserIds /\ disconnected_players[u].present

LobbyStep(op, c, outcome) == [op |-> op, conn |-> c, outcome |-> outcome]

\* lines 305-307
LobbyAccept(maxConn) ==
    /\ lpc = "accept"
    /\ nextConn <= maxConn
    /\ lpc' = "classify"
    /\ lconn' = nextConn
    /\ nextConn' = nextConn + 1
    /\ \E peer \in {"open", "silent"} :
          connStatus' = [connStatus EXCEPT ![nextConn] = peer]
    /\ llast' = LobbyStep("accept", nextConn, "welcome")
    /\ UNCHANGED <<luser, player_queue, spectators, unique_id_counter,
                   resume_threads, active_players, disconnected_players,
                   issued>>
    /\ UNCHANGED mainVars
    /\ UNCHANGED engineVars
    /\ UNCHANGED <<codec, client>>

\* lines 309-321, 346-351, 353, 360-362
LobbyClassify(frames) ==
    /\ lpc = "classify"
    /\ \E ev \in RecvEvents(lconn, frames, FALSE) :
       LET packet == ReceiveTable[ev]
           cs == AfterEvent(lconn, ev)
           user_input == packet[3]
       IN  IF packet = None
           THEN /\ lpc' = "accept"
                /\ connStatus' = [cs EXCEPT ![lconn] = "closed"]
                /\ llast' = LobbyStep("classify", lconn, "no_packet")
                /\ UNCHANGED <<luser, player_queue, unique_id_counter>>
           ELSE IF isdigit(user_input) /\ int(user_input).raised
           THEN \* line 317: int() raises outside any try; the thread ends
                /\ lpc' = "dead"
                /\ connStatus' = cs
                /\ llast' = LobbyStep("classify", lconn, "ValueError")
                /\ UNCHANGED <<luser, player_queue, unique_id_counter>>
           ELSE IF isdigit(user_input) /\ InDisconnected(int(user_input).value)
           THEN /\ lpc' = "token"
                /\ luser' = int(user_input).value
                /\ connStatus' = cs
                /\ llast' = LobbyStep("classify", lconn, "token_prompt")
                /\ UNCHANGED <<player_queue, unique_id_counter>>
           ELSE IF lower(user_input) \in {T_new, T_n}
           THEN /\ lpc' = "accept"
                /\ player_queue' = Append(player_queue,
                                          <<lconn, unique_id_counter>>)
                /\ unique_id_counter' = unique_id_counter + 1
                /\ connStatus' = cs
                /\ llast' = LobbyStep("classify", lconn, "queued")
                /\ UNCHANGED luser
           ELSE IF lower(user_input) \in {T_spectator, T_s}
           THEN \* the thread goes on to take spectators_lock (line 354); the
                \* client may be one that sends nothing after this reply
                /\ lpc' = "spectator"
                /\ \E peer \in {"open", "silent"} :
                      connStatus' = [cs EXCEPT ![lconn] = peer]
                /\ llast' = LobbyStep("classify", lconn, "spectator")
                /\ UNCHANGED <<luser, player_queue, unique_id_counter>>
           ELSE /\ lpc' = "accept"
                /\ connStatus' = [cs EXCEPT ![lconn] = "closed"]
                /\ llast' = LobbyStep("classify", lconn, "rejected")
                /\ UNCHANGED <<luser, player_queue, unique_id_counter>>
    /\ UNCHANGED <<lconn, nextConn, spectators, resume_threads, active_players,
                   disconnected_players, issued>>
    /\ UNCHANGED mainVars
    /\ UNCHANGED engineVars
    /\ UNCHANGED <<codec, client>>

\* lines 322-344
LobbyToken(frames) ==
    /\ lpc = "token"
    /\ \E ev \in RecvEvents(lconn, frames, FALSE) :
       LET token_packet == ReceiveTable[ev]
           cs == AfterEvent(lconn, ev)
           session_token == token_packet[3]
           entry == active_players[luser]
       IN  IF token_packet = None
           THEN /\ lpc' = "accept"
                /\ connStatus' = [cs EXCEPT ![lconn] = "closed"]
                /\ llast' = LobbyStep("token", lconn, "no_packet")
                /\ UNCHANGED <<active_players, resume_threads>>
           ELSE IF entry.kind = "socket"
           THEN \* line 329: a socket has no .get; the AttributeError ends the thread
                /\ lpc' = "dead"
                /\ connStatus' = cs
                /\ llast' = [op |-> "token", conn |-> lconn,
                             outcome |-> "AttributeError",
                             given |-> session_token]
                /\ UNCHANGED <<active_players, resume_threads>>
           ELSE IF entry.kind = "absent" \/ session_token # entry.token
           THEN \* expected_token is None, or another string
                /\ lpc' = "accept"
                /\ connStatus' = [cs EXCEPT ![lconn] = "closed"]
                /\ llast' = [op |-> "token", conn |-> lconn,
                             outcome |-> "denied", given |-> session_token]
                /\ UNCHANGED <<active_players, resume_threads>>
           ELSE /\ lpc' = "accept"
                /\ connStatus' = cs
                /\ active_players' = [active_players EXCEPT ![luser].conn = lconn]
                /\ resume_threads' = resume_threads \cup {<<luser, lconn>>}
                /\ llast' = [op |-> "token", conn |-> lconn,
                             outcome |-> "resumed", given |-> session_token]
    /\ UNCHANGED <<lconn, luser, nextConn, player_queue, spectators,
                   unique_id_counter, disconnected_players, issued>>
    /\ UNCHANGED mainVars
    /\ UNCHANGED engineVars
    /\ UNCHANGED <<codec, client>>

\* lines 354-357, once spectators_lock is free
LobbySpectatorAppend ==
    /\ lpc = "spectator"
    /\ spectators_lock = "free"
    /\ lpc' = "spectator_notify"
    /\ spectators' = Append(spectators, lconn)
    /\ llast' = LobbyStep("spectator", lconn, "spectating")
    /\ UNCHANGED <<lconn, luser, nextConn, player_queue, unique_id_counter,
                   resume_threads, connStatus, active_players,
                   disconnected_players, issued>>
    /\ UNCHANGED mainVars
    /\ UNCHANGED engineVars
    /\ UNCHANGED <<codec, client>>

(***************************************************************************)
(* notify_spectators (server.py:364-394).  The for loop walks the list by  *)
(* position while the except clause removes from it.  failing: the         *)
(* spectators whose send raises.                                           *)
(***************************************************************************)
RemoveNone(list, x) == list
Remove(list, x) ==
    LET at == {i \in 1..Len(list) : list[i] = x}
    IN  IF at = {} THEN list
        ELSE LET k == CHOOSE i \in at : \A j \in at : i <= j
             IN  SubSeq(list, 1, k - 1) \o SubSeq(list, k + 1, Len(list))

RECURSIVE NotifyLoop(_, _, _, _)
NotifyLoop(list, i, failing, delivered) ==
    IF i > Len(list) THEN [spectators |-> list, delivered |-> delivered]
    ELSE IF list[i] \in failing
    THEN NotifyLoop(Remove(list, list[i]), i + 1, failing, delivered)
    ELSE NotifyLoop(list, i + 1, failing, Append(delivered, list[i]))

notify_spectators(list, failing) == NotifyLoop(list, 1, failing, <<>>)

\* the spectators a send can fail for: their peer closed or reset
MayFail(list) == {list[i] : i \in {j \in 1..Len(list) :
                                      connStatus[list[j]] = "peer_closed"}}

\* line 356, and the entry of notify_spectators up to line 383, once
\* spectators_lock is free
LobbyNotifyEnter ==
    /\ lpc = "spectator_notify"
    /\ spectators_lock = "free"
    /\ lpc' = "notifying"
    /\ spectators_lock' = "lobby"
    /\ llast' = LobbyStep("notify", lconn, "locked")
    /\ UNCHANGED <<lconn, luser, nextConn, player_queue, spectators,
                   unique_id_counter, resume_threads, connStatus,
                   active_players, disconnected_players, issued>>
    /\ UNCHANGED <<mpc, ask_i, willing_spectators, mlast, user_id_a>>
    /\ UNCHANGED engineVars
    /\ UNCHANGED <<codec, client>>

\* the loop of notify_spectators called at line 358 (lines 384-394), and the
\* release of spectators_lock
LobbySpectatorNotify ==
    /\ lpc = "notifying"
    /\ spectators_lock' = "free"
    /\ \E failing \in SUBSET MayFail(spectators) :
          LET r == notify_spectators(spectators, failing)
          IN  /\ spectators' = r.spectators
              /\ llast' = [op |-> "notify", conn |-> lconn, outcome |-> "joined",
                           delivered |-> r.delivered]
    /\ lpc' = "accept"
    /\ UNCHANGED <<lconn, luser, nextConn, player_queue, unique_id_counter,
                   resume_threads, connStatus, active_players,
                   disconnected_players, issued>>
    /\ UNCHANGED <<mpc, ask_i, willing_spectators, mlast, user_id_a>>
    /\ UNCHANGED engineVars
    /\ UNCHANGED <<codec, client>>

(***************************************************************************)
(* main (server.py:594-749).                                               *)
(***************************************************************************)
\* parameters of run_multi_player_game_online, battleship.py:352
EngineParams == {"conn1", "conn2", "notify_spectators", "user_id1", "user_id2",
                 "server_socket", "wait_for_reconnection", "send_packet",
                 "receive_packet", "disconnected_players", "active_players",
                 "resuming_game", "saved_game_state"}
\* keyword arguments of the call in main, server.py:658
MainCallKeywords == {"token1", "token2"}
\* a keyword that names no parameter makes the call raise TypeError before
\* the body runs
MainCallBinds == MainCallKeywords \subseteq EngineParams

\* what secrets.token_hex(8) may return (lines 650-651)
TokenValues == {T_tokA, T_tokB}

MainStep(op, outcome) == [op |-> op, outcome |-> outcome]

\* battleship.py:353-382, up to the first receive of the placement
EngineEnter(c1, c2, u1, u2, cs) ==
    /\ pc' = "place_coord"
    /\ place' = [player |-> 1, ship |-> 1, coord |-> None]
    /\ board' = [i \in 1..2 |-> NewBoard]
    /\ conn' = <<c1, c2>>
    /\ user_id' = <<u1, u2>>
    /\ outbox' = PlacementIntro(cs, c1) \o ShipPrompts(cs, c1, 1)
    /\ elast' = [op |-> "enter", player |-> 1, kind |-> "call",
                 outcome |-> "placement"]
    /\ UNCHANGED <<freshBoard, current_turn, timeout_counts, missed,
                   game_running, saved_file>>

\* Queue.get of a queue that is not empty: the oldest item, and what is left
queue_get_last(q) == [item |-> q[Len(q)], queue |-> SubSeq(q, 1, Len(q) - 1)]
queue_get(q) == [item |-> Head(q), queue |-> Tail(q)]

\* lines 630-658; when the call raises, lines 704-720 and the entry of
\* ask_spectators_to_play (lines 267-268)
MainPair ==
    /\ mpc = "wait_pair"
    /\ Len(player_queue) >= 2
    /\ spectators_lock = "free"
    /\ LET first == queue_get(player_queue)
           second == queue_get(first.queue)
           p1 == first.item
           p2 == second.item
       IN \E token1 \in TokenValues, token2 \in TokenValues,
             failing \in SUBSET MayFail(spectators) :
          LET started == notify_spectators(spectators, failing)
              ended == notify_spectators(started.spectators, failing)
          IN  /\ player_queue' = second.queue
              /\ issued' = [issued EXCEPT ![p1[2]] = token1, ![p2[2]] = token2]
              /\ active_players' =
                    [active_players EXCEPT
                        ![p1[2]] = [kind |-> "dict", conn |-> p1[1], token |-> token1],
                        ![p2[2]] = [kind |-> "dict", conn |-> p2[1], token |-> token2]]
              /\ IF MainCallBinds
                 THEN /\ EngineEnter(p1[1], p2[1], p1[2], p2[2], connStatus)
                      /\ mpc' = "in_game"
                      /\ spectators' = started.spectators
                      /\ mlast' = [op |-> "pair", outcome |-> "engine",
                                   players |-> <<p1, p2>>]
                      /\ UNCHANGED <<connStatus, ask_i, willing_spectators,
                                     spectators_lock>>
                 ELSE /\ mpc' = "ask"
                      /\ spectators' = ended.spectators
                      /\ connStatus' = [connStatus EXCEPT ![p1[1]] = "closed",
                                                          ![p2[1]] = "closed"]
                      /\ spectators_lock' = "main"
                      /\ ask_i' = 1
                      /\ willing_spectators' = <<>>
                      /\ mlast' = [op |-> "pair", outcome |-> "TypeError",
                                   players |-> <<p1, p2>>]
                      /\ UNCHANGED engineVars
    /\ UNCHANGED <<lpc, lconn, luser, llast, nextConn, unique_id_counter,
                   resume_threads, disconnected_players, user_id_a>>
    /\ UNCHANGED <<codec, client>>

\* one pass of the for loop of ask_spectators_to_play (lines 269-277), and
\* its end (line 278)
MainAsk(frames) ==
    /\ mpc = "ask"
    /\ IF ask_i > Len(spectators)
       THEN /\ mpc' = "promote"
            /\ spectators_lock' = "free"
            /\ mlast' = MainStep("ask", "asked")
            /\ UNCHANGED <<ask_i, willing_spectators, spectators, connStatus>>
       ELSE LET c == spectators[ask_i]
            IN  \/ \* send_packet raises: the except clause removes the spectator
                   /\ connStatus[c] = "peer_closed"
                   /\ spectators' = Remove(spectators, c)
                   /\ ask_i' = ask_i + 1
                   /\ mlast' = MainStep("ask", "removed")
                   /\ UNCHANGED <<mpc, willing_spectators, spectators_lock,
                                  connStatus>>
                \/ \E ev \in RecvEvents(c, frames, FALSE) :
                   LET response == ReceiveTable[ev]
                   IN  /\ connStatus' = AfterEvent(c, ev)
                       /\ willing_spectators' =
                             IF response # None /\ lower(strip(response[3])) = T_y
                             THEN Append(willing_spectators, c)
                             ELSE willing_spectators
                       /\ ask_i' = ask_i + 1
                       /\ mlast' = MainStep("ask", "answered")
                       /\ UNCHANGED <<mpc, spectators, spectators_lock>>
    /\ UNCHANGED <<lpc, lconn, luser, llast, nextConn, player_queue,
                   unique_id_counter, resume_threads, active_players,
                   disconnected_players, issued, user_id_a>>
    /\ UNCHANGED engineVars
    /\ UNCHANGED <<codec, client>>

InList(list, x) == \E i \in 1..Len(list) : list[i] = x

\* notify_and_disconnect_lobby (lines 246-253) when spectators is list, then
\* line 748.  It takes no lock; the exception has released the one main held
Shutdown(list, why) ==
    /\ mpc' = "join"
    /\ connStatus' = [c \in ConnIds |-> IF InList(list, c) THEN "closed"
                                        ELSE connStatus[c]]
    /\ spectators' = <<>>
    /\ spectators_lock' = IF spectators_lock = "main" THEN "free"
                          ELSE spectators_lock
    /\ mlast' = MainStep("shutdown", why)

\* lines 726-732, and lines 739-742 when fewer than two are willing
MainPromote ==
    /\ mpc = "promote"
    /\ spectators_lock = "free"
    /\ IF Len(willing_spectators) >= 2
       THEN LET a == willing_spectators[1]
                b == willing_spectators[2]
            IN  IF ~InList(spectators, a) \/ ~InList(spectators, b)
                THEN \* spectators.remove raises ValueError: no handler but the
                     \* finally clause of line 746; the first is removed if
                     \* it is there
                     /\ Shutdown(Remove(spectators, a), "ValueError")
                     /\ UNCHANGED user_id_a
                ELSE /\ spectators' = Remove(Remove(spectators, a), b)
                     /\ user_id_a' = unique_id_counter
                     /\ mpc' = "promote_ids"
                     /\ mlast' = MainStep("promote", "removed")
                     /\ UNCHANGED <<connStatus, spectators_lock>>
       ELSE \E failing \in SUBSET MayFail(spectators) :
            /\ spectators' = notify_spectators(spectators, failing).spectators
            /\ mpc' = "wait_pair"
            /\ mlast' = MainStep("promote", "not_enough")
            /\ UNCHANGED <<connStatus, spectators_lock, user_id_a>>
    /\ UNCHANGED <<ask_i, willing_spectators, player_queue, unique_id_counter>>
    /\ UNCHANGED <<lpc, lconn, luser, llast, nextConn, resume_threads,
                   active_players, disconnected_players, issued>>
    /\ UNCHANGED engineVars
    /\ UNCHANGED <<codec, client>>

\* lines 733-737 and 742: the counter is a global that the lobby thread
\* reads and writes as well, and no lock is held between line 732 and here
MainPromoteIds ==
    /\ mpc = "promote_ids"
    /\ spectators_lock = "free"
    /\ LET user_id_b == unique_id_counter + 1
       IN  /\ unique_id_counter' = user_id_b + 1
           /\ player_queue' = player_queue
                              \o << <<willing_spectators[1], user_id_a>>,
                                    <<willing_spectators[2], user_id_b>> >>
    /\ \E failing \in SUBSET MayFail(spectators) :
          spectators' = notify_spectators(spectators, failing).spectators
    /\ mpc' = "wait_pair"
    /\ mlast' = MainStep("promote", "promoted")
    /\ UNCHANGED <<ask_i, willing_spectators, spectators_lock, user_id_a,
                   connStatus>>
    /\ UNCHANGED <<lpc, lconn, luser, llast, nextConn, resume_threads,
                   active_players, disconnected_players, issued>>
    /\ UNCHANGED engineVars
    /\ UNCHANGED <<codec, client>>

\* KeyboardInterrupt in the main thread: lines 744-748
MainInterrupt ==
    /\ mpc \in {"wait_pair", "ask", "promote", "promote_ids"}
    /\ Shutdown(spectators, "KeyboardInterrupt")
    /\ UNCHANGED <<ask_i, willing_spectators, user_id_a>>
    /\ UNCHANGED <<lpc, lconn, luser, llast, nextConn, player_queue,
                   unique_id_counter, resume_threads, active_players,
                   disconnected_players, issued>>
    /\ UNCHANGED engineVars
    /\ UNCHANGED <<codec, client>>

\* line 748: lobby_thread.join() returns when the lobby thread has ended;
\* then line 749, the with block of line 619 closes the socket, main returns
MainJoin ==
    /\ mpc = "join"
    /\ lpc = "dead"
    /\ mpc' = "returned"
    /\ mlast' = MainStep("join", "returned")
    /\ UNCHANGED <<ask_i, willing_spectators, spectators_lock, user_id_a>>
    /\ UNCHANGED <<connStatus, active_players, disconnected_players, issued>>
    /\ UNCHANGED lobbyVars
    /\ UNCHANGED engineVars
    /\ UNCHANGED <<codec, client>>

(***************************************************************************)
(* Specifications.                                                         *)
(***************************************************************************)
NoStep == [op |-> "none", outcome |-> "none"]

\* no frame is in the making
CodecOff == [stage |-> "off"]

\* no client process is looked at
ClientOff == [main |-> "off"]

InitShared ==
    /\ freshBoard = [i \in 1..2 |-> NewBoard]
    /\ current_turn = 1
    /\ timeout_counts = [i \in 1..2 |-> 0]
    /\ missed = [i \in 1..2 |-> FALSE]
    /\ game_running = FALSE
    /\ disconnected_players = [u \in UserIds |-> [present |-> FALSE, conn |-> 0]]
    /\ saved_file = <<>>
    /\ lpc = "accept"
    /\ lconn = 0
    /\ luser = 0
    /\ llast = LobbyStep("none", 0, "none")
    /\ player_queue = <<>>
    /\ spectators = <<>>
    /\ resume_threads = {}
    /\ ask_i = 0
    /\ willing_spectators = <<>>
    /\ spectators_lock = "free"
    /\ mlast = NoStep
    /\ user_id_a = 0

\* the engine has been entered for the players of connections 1 and 2, user
\* ids 1 and 2, and main has stored their tokens (server.py:650-653)
Init ==
    /\ InitShared
    /\ codec = CodecOff
    /\ client = ClientOff
    /\ pc = "place_coord"
    /\ place = [player |-> 1, ship |-> 1, coord |-> None]
    /\ board = [i \in 1..2 |-> NewBoard]
    /\ conn = <<1, 2>>
    /\ user_id = <<1, 2>>
    /\ connStatus = [c \in ConnIds |-> IF c <= 2 THEN "open" ELSE "none"]
    /\ outbox = <<Msg(1, <<"place_manually">>), Msg(1, <<"your_board">>),
                  Msg(1, <<"placing", SHIPS[1][1]>>), Msg(1, <<"enter_coord">>)>>
    /\ elast = [op |-> "enter", player |-> 1, kind |-> "call",
                outcome |-> "placement"]
    /\ issued = [u \in UserIds |-> IF u = 1 THEN T_tokA
                                   ELSE IF u = 2 THEN T_tokB ELSE <<>>]
    /\ active_players =
          [u \in UserIds |->
              IF u <= 2 THEN [kind |-> "dict", conn |-> u, token |-> issued[u]]
              ELSE Absent]
    /\ nextConn = 3
    /\ unique_id_counter = 3
    /\ mpc = "in_game"

Next ==
    \/ PlaceCoord(PlayerEvents)
    \/ PlaceOrient(PlayerEvents)
    \/ Fire(PlayerEvents)
    \/ ReconnectWait

Spec == Init /\ [][Next]_vars

\* the same match, its players answering with MatchTexts, next to the lobby
\* acceptor thread and the clients that come back to it
NextReconnect ==
    \/ PlaceCoord(MatchEvents)
    \/ PlaceOrient(MatchEvents)
    \/ Fire(MatchEvents)
    \/ ReconnectWait
    \/ LobbyAccept(2 + MaxLobbyConns)
    \/ LobbyClassify(ReconnectEvents)
    \/ LobbyToken(ReconnectEvents)

SpecReconnect == Init /\ [][NextReconnect]_vars

\* a match that main runs (server.py:655-658 is a call in main's own loop;
\* no thread is started for a match), next to the lobby thread that queues
\* the players who arrive meanwhile.  The lobby thread runs whenever it
\* can; the players of the match answer when they choose, and the placement
\* waits for them without a timeout (battleship.py:84, 104).
MaxWaiting == 2

NextMatches ==
    \/ PlaceCoord(MatchEvents)
    \/ PlaceOrient(MatchEvents)
    \/ Fire(MatchEvents)
    \/ ReconnectWait
    \/ LobbyAccept(2 + MaxWaiting)
    \/ LobbyClassify(NewEvents)

SpecMatches ==
    /\ Init
    /\ [][NextMatches]_vars
    /\ WF_vars(LobbyAccept(2 + MaxWaiting))
    /\ WF_vars(LobbyClassify(NewEvents))

\* the server after main has started the lobby thread (server.py:619-626)
ServerStarted ==
    /\ InitShared
    /\ pc = "idle"
    /\ place = [player |-> 0, ship |-> 0, coord |-> None]
    /\ board = [i \in 1..2 |-> NewBoard]
    /\ conn = <<0, 0>>
    /\ user_id = <<0, 0>>
    /\ connStatus = [c \in ConnIds |-> "none"]
    /\ outbox = <<>>
    /\ elast = [op |-> "none", player |-> 0, kind |-> "none", outcome |-> "none"]
    /\ issued = [u \in UserIds |-> <<>>]
    /\ active_players = [u \in UserIds |-> Absent]
    /\ nextConn = 1
    /\ unique_id_counter = 1
    /\ mpc = "wait_pair"

InitServer == ServerStarted /\ codec = CodecOff /\ client = ClientOff

NextServer ==
    \/ LobbyAccept(MaxClients)
    \/ LobbyClassify(LobbyEvents)
    \/ LobbySpectatorAppend
    \/ LobbyNotifyEnter
    \/ LobbySpectatorNotify
    \/ MainPair
    \/ MainAsk(SpectatorEvents)
    \/ MainPromote
    \/ MainPromoteIds
    \/ MainInterrupt
    \/ MainJoin

SpecServer == InitServer /\ [][NextServer]_vars

\* The same, with the scheduling of the two threads: a thread that can take
\* its next step takes it.  A KeyboardInterrupt need not come.
SpecServerLive ==
    /\ InitServer
    /\ [][NextServer]_vars
    /\ WF_vars(LobbyAccept(MaxClients))
    /\ WF_vars(LobbyClassify(LobbyEvents))
    /\ WF_vars(LobbySpectatorAppend)
    /\ WF_vars(LobbyNotifyEnter)
    /\ WF_vars(LobbySpectatorNotify)
    /\ WF_vars(MainPair)
    /\ WF_vars(MainAsk(SpectatorEvents))
    /\ WF_vars(MainPromote)
    /\ WF_vars(MainPromoteIds)
    /\ WF_vars(MainJoin)

(***************************************************************************)
(* The codec on its own: a frame is made by create_packet from arguments   *)
(* drawn from bounded sets, and parsed by parse_packet.                    *)
(***************************************************************************)
\* longest payload of SpecCodec
MaxPayloadLen == 2

\* characters of the payloads: A, z, 9, space, e acute (a letter for
\* str.isalpha), the multiplication sign (not a letter)
CodecChars == {65, 122, 57, 32, 233, 215}
\* sequence numbers ('H' of struct.pack: 0..65535) and types ('B': 0..255)
CodecSeqs == {0, 258, 65535}
CodecTypes == {0, 6, 255}

CodecPayloads == UNION {[1..n -> CodecChars] : n \in 0..MaxPayloadLen}

InitCodec ==
    /\ ServerStarted
    /\ client = ClientOff
    /\ codec \in {[stage |-> "args", seq |-> q, type |-> ty, payload |-> t] :
                     q \in CodecSeqs, ty \in CodecTypes, t \in CodecPayloads}

\* server.py:66-93
CodecCreate ==
    /\ codec.stage = "args"
    /\ codec' = [stage |-> "packet", seq |-> codec.seq, type |-> codec.type,
                 payload |-> codec.payload,
                 packet |-> create_packet(codec.seq, codec.type, codec.payload)]
    /\ UNCHANGED <<connStatus, active_players, disconnected_players, issued>>
    /\ UNCHANGED engineVars
    /\ UNCHANGED lobbyVars
    /\ UNCHANGED mainVars
    /\ UNCHANGED client

\* server.py:95-149
CodecParse ==
    /\ codec.stage = "packet"
    /\ codec' = [stage |-> "parsed", seq |-> codec.seq, type |-> codec.type,
                 payload |-> codec.payload, packet |-> codec.packet,
                 parsed |-> parse_packet(codec.packet)]
    /\ UNCHANGED <<connStatus, active_players, disconnected_players, issued>>
    /\ UNCHANGED engineVars
    /\ UNCHANGED lobbyVars
    /\ UNCHANGED mainVars
    /\ UNCHANGED client

NextCodec ==
    \/ CodecCreate
    \/ CodecParse

SpecCodec == InitCodec /\ [][NextCodec]_vars

\* C19: what parse_packet makes of the packet create_packet made is the
\* sequence number, the type and the payload the packet was made from, and
\* caesar_decrypt undoes caesar_encrypt with the shared key on the payload.
C19_CodecRoundTrip ==
    (codec.stage = "parsed") =>
        /\ codec.parsed = <<codec.seq, codec.type, codec.payload>>
        /\ caesar_decrypt(caesar_encrypt(codec.payload, SHARED_KEY), SHARED_KEY)
              = codec.payload

(***************************************************************************)
(* Properties of the fire phase, under Spec.                               *)
(***************************************************************************)
\* the last step of the engine sent connection c a message whose tag is head
SentTag(c, head) ==
    \E i \in 1..Len(outbox) : outbox[i].to = c /\ outbox[i].msg[1] = head

\* the match has ended with player n forfeiting: the engine has returned, both
\* connections were told of the forfeit and of the end of the game, and n was
\* not prompted again
ForfeitBy(n) ==
    /\ pc = "done"
    /\ ~game_running
    /\ \A k \in 1..2 : /\ SentTag(conn[k], "forfeit")
                       /\ SentTag(conn[k], "game_ended")
    /\ \E i \in 1..Len(outbox) : outbox[i] = Msg(conn[Other(n)], <<"forfeit", n>>)
    /\ ~SentTag(conn[n], "fire_prompt")

\* C1: in the fire phase, when the receive of a turn of player n times out and
\* a receive of an earlier turn of n has timed out with no shot of n resolved
\* in between, the match ends as a forfeit by n: the opponent is told n
\* forfeited, both connections get the termination message before the engine
\* returns, and n is not prompted again.
C1_SecondSilenceForfeits ==
    [][\A n \in 1..2 :
          (pc = "fire" /\ current_turn = n /\ missed[n]
           /\ elast'.op = "fire" /\ elast'.kind = "timeout")
          => ForfeitBy(n)']_vars

\* no ship cell of board b is left unhit
NoShipLeft(b) == \A rc \in Cells : b.hidden_grid[rc] # "S"

\* C2: after a shot by player n resolves as hit or miss, n's timeout counter
\* is zero; the match has ended with n as the winner exactly when no ship cell
\* is left on the opponent's board, and then no fire prompt was issued;
\* otherwise the match goes on and the turn is the other player's, who is
\* prompted.
C2_ShotResolved ==
    (elast.op = "fire" /\ elast.outcome \in {"hit", "miss", "win"}) =>
        LET n == elast.player
            o == Other(elast.player)
            won == /\ pc = "done"
                   /\ ~game_running
                   /\ \A k \in 1..2 :
                         \E i \in 1..Len(outbox) :
                            outbox[i] = Msg(conn[k], <<"wins", n>>)
        IN  /\ timeout_counts[n] = 0
            /\ won <=> NoShipLeft(board[o])
            /\ won => \A k \in 1..2 : ~SentTag(conn[k], "fire_prompt")
            /\ ~won => /\ pc = "fire"
                       /\ game_running
                       /\ current_turn = o
                       /\ SentTag(conn[o], "fire_prompt")
                       /\ ~SentTag(conn[n], "fire_prompt")

\* C2 happens: a shot has sunk the last ship and the engine has returned
C2_WinningShot ==
    /\ elast.op = "fire"
    /\ elast.outcome = "win"
    /\ pc = "done"
    /\ NoShipLeft(board[Other(elast.player)])
    /\ timeout_counts[elast.player] = 0

\* C3: when the connection of the player on turn was closed or reset by the
\* peer while the engine waited for the shot, the engine is in the disconnect
\* handler for that player: the player is recorded as disconnected, the
\* snapshot of the match is saved, and the opponent was told of the
\* disconnection.
C3_PeerLossDisconnects ==
    (elast.op = "fire" /\ elast.kind \in {"closed", "reset"}) =>
        /\ pc = "disc"
        /\ InDisconnected(user_id[elast.player])
        /\ saved_file = <<GameState(board, freshBoard, current_turn,
                                    timeout_counts)>>
        /\ SentTag(conn[Other(elast.player)], "disconnected")

\* C4: after player n sends 'quit' on a turn of theirs, n is not recorded as
\* disconnected, and when the engine has returned both players were told that
\* n quit.
C4_QuitFinishes ==
    /\ (elast.op = "fire" /\ elast.outcome = "quit")
          => ~InDisconnected(user_id[elast.player])
    /\ (elast.op = "wait" /\ pc = "done")
          => /\ ~InDisconnected(user_id[elast.player])
             /\ \A k \in 1..2 :
                   connStatus[conn[k]] # "closed"
                      => SentTag(conn[k], "game_over_quit")

\* C5: the wait for the reconnection of player n ends in one of two ways: with
\* a replacement connection, and then the match goes on in the turn of n with
\* the boards of the snapshot and the fire prompt sent to the replacement; or
\* exhausted, and then the match ends with n not having reconnected.
C5_WaitOutcome ==
    (elast.op = "wait") =>
        LET n == elast.player
        IN  \/ /\ elast.kind = "conn"
               /\ pc = "fire"
               /\ current_turn = n
               /\ saved_file[1].board = board
               /\ saved_file[1].freshBoard = freshBoard
               /\ connStatus[conn[n]] = "open"
               /\ SentTag(conn[n], "fire_prompt")
            \/ /\ elast.kind = "none"
               /\ pc = "done"
               /\ SentTag(conn[Other(n)], "did_not_reconnect")

\* C9: an on-turn input that is not a valid coordinate leaves both boards,
\* both firing boards, the current turn and both timeout counters as they
\* were, and the same player is prompted again.
C9_InvalidCoordinateNoChange ==
    [][(pc = "fire" /\ elast'.op = "fire" /\ elast'.outcome = "invalid")
          => /\ UNCHANGED <<board, freshBoard, current_turn, timeout_counts>>
             /\ pc' = "fire"
             /\ SentTag(conn[current_turn], "fire_prompt")']_vars

\* C10: a frame that fails the checksum changes nothing of the match, in the
\* placement and in the fire phase: the engine stays where it is, and the
\* current turn, the timeout counters, the boards and game_running are as
\* they were.
C10_CorruptFrameNoOp ==
    [][(pc \in {"place_coord", "place_orient", "fire"}
        /\ elast'.op \in {"place", "fire"} /\ elast'.kind = "corrupt")
          => UNCHANGED <<pc, place, current_turn, timeout_counts, board,
                         freshBoard, game_running>>]_vars

(***************************************************************************)
(* Properties of the reconnection, under SpecReconnect.                    *)
(***************************************************************************)
\* the lobby thread has read an answer to "Enter your session token:"
TokenStep == lpc = "token" /\ llast'.op = "token" /\ llast'.outcome # "no_packet"

\* C6: a reconnection attempt whose token differs from the token stored for
\* the user is rejected: the new connection is closed, no resume thread is
\* started, the lobby thread goes back to accepting, and the index of
\* disconnected players, the index of active sessions and the state of the
\* match (its turn included) stay as they were.
C6_WrongTokenRejected ==
    [][(TokenStep /\ llast'.given # issued[luser])
          => /\ llast'.outcome = "denied"
             /\ connStatus'[lconn] = "closed"
             /\ lpc' = "accept"
             /\ UNCHANGED <<resume_threads, disconnected_players,
                            active_players, engineVars>>]_vars

\* C7: a reconnection attempt for a disconnected player with the token stored
\* for that player is taken up: it is neither denied nor does it end the lobby
\* thread, the new connection stays open, and no second engine instance is
\* started for the match.
C7_MatchingTokenReattaches ==
    [][(TokenStep /\ llast'.given = issued[luser])
          => /\ InDisconnected(luser)
             /\ llast'.outcome \notin {"denied", "AttributeError"}
             /\ lpc' # "dead"
             /\ connStatus'[lconn] = "open"
             /\ resume_threads' = {}]_vars

(***************************************************************************)
(* Properties of main's pairing loop, under SpecServer.                    *)
(***************************************************************************)
\* main has dequeued two players and called the engine
PairStep == mpc = "wait_pair" /\ mpc' # "wait_pair" /\ mlast'.op = "pair"

\* C8: when main dequeues two queued players, an engine instance is started
\* for that pair, its sessions hold the tokens issued for the two users, and
\* it enters the placement of the first dequeued player, who is prompted for
\* the first ship.
C8_PairStartsEngine ==
    [][PairStep
          => /\ mlast'.outcome = "engine"
             /\ mpc' = "in_game"
             /\ pc' = "place_coord"
             /\ place'.player = 1
             /\ conn' = <<player_queue[1][1], player_queue[2][1]>>
             /\ user_id' = <<player_queue[1][2], player_queue[2][2]>>
             /\ \A k \in 1..2 :
                   /\ issued'[user_id'[k]] \in TokenValues
                   /\ active_players'[user_id'[k]] =
                         [kind |-> "dict", conn |-> conn'[k],
                          token |-> issued'[user_id'[k]]]
             /\ SentTag(conn[1], "enter_coord")'
             /\ ~SentTag(conn[2], "enter_coord")']_vars

(***************************************************************************)
(* Properties of the engine's exit paths, under Spec.                      *)
(***************************************************************************)
\* C11: when the engine has returned, on whatever path, neither player's user
\* id is left in active_players, and every connection of a player that the
\* server has not closed was sent a closing message by the last step.
C11_ExitReleases ==
    (pc = "done") =>
        \A k \in 1..2 :
            /\ active_players[user_id[k]] = Absent
            /\ (conn[k] # 0 /\ connStatus[conn[k]] # "closed")
                  => \/ SentTag(conn[k], "game_ended")
                     \/ SentTag(conn[k], "game_over_quit")

\* C20: fire_at on a cell of a board that is already revealed, as hit or as
\* miss, returns already_shot with no ship name and the board as it was: the
\* hidden grid, the display grid and the positions left of every ship.  The
\* board being the same, so is every repetition.
C20_RevealedCellAlreadyShot ==
    \A n \in 1..2 : \A rc \in Cells :
        board[n].hidden_grid[rc] \in {"X", "o"} =>
            fire_at(board[n], rc[1], rc[2]) =
                [board |-> board[n], result |-> "already_shot",
                 sunk_ship_name |-> None]

\* C20 happens: the engine has fired at a revealed cell of a board that holds
\* a hit, a miss and a ship with positions left
C20_RepeatedShot ==
    /\ elast.op = "fire"
    /\ elast.outcome = "already_shot"
    /\ LET b == board[Other(elast.player)]
       IN  /\ \E rc \in Cells : b.hidden_grid[rc] = "X"
           /\ \E rc \in Cells : b.hidden_grid[rc] = "o"
           /\ \E i \in 1..Len(b.placed_ships) : b.placed_ships[i].positions # {}


(***************************************************************************)
(* Properties of the lobby and of main's loop, under SpecServer.           *)
(***************************************************************************)
\* C14: main dequeues only when two or more players are queued; it takes the
\* two oldest entries, the older as player 1, and leaves the others in their
\* order; every other change of the queue appends at its tail, so the queue
\* is in arrival order.
C14_PairsInArrivalOrder ==
    [][/\ PairStep
          => /\ Len(player_queue) >= 2
             /\ mlast'.players = <<player_queue[1], player_queue[2]>>
             /\ player_queue' = SubSeq(player_queue, 3, Len(player_queue))
       /\ (player_queue' # player_queue /\ ~PairStep)
          => /\ Len(player_queue') > Len(player_queue)
             /\ SubSeq(player_queue', 1, Len(player_queue)) = player_queue]_vars

\* C14 happens: main has paired two players while a third was queued behind
\* them
C14_PairedAheadOfThird ==
    /\ mlast.op = "pair"
    /\ Len(player_queue) >= 1
    /\ \A i \in 1..Len(player_queue) :
          /\ player_queue[i][1] > mlast.players[1][1]
          /\ player_queue[i][1] > mlast.players[2][1]


\* where the server holds connection c
InQueue(c) == \E i \in 1..Len(player_queue) : player_queue[i][1] = c
InMatch(c) ==
    \/ pc \notin {"idle", "done"} /\ c \in {conn[1], conn[2]}
    \/ \E u \in UserIds : /\ active_players[u].kind = "dict"
                          /\ active_players[u].conn = c
InSpectators(c) == InList(spectators, c)
Live(c) == connStatus[c] \in {"open", "silent", "peer_closed"}

\* C17: a connection that the server has accepted and not closed is in at
\* most one of the pairing queue, a match and the spectator list, and at most
\* once in the queue and in the list; this holds through a promotion.
C17_OnePlacePerConnection ==
    \A c \in ConnIds :
        Live(c) =>
            /\ ~(InQueue(c) /\ InMatch(c))
            /\ ~(InQueue(c) /\ InSpectators(c))
            /\ ~(InMatch(c) /\ InSpectators(c))
            /\ Cardinality({i \in 1..Len(player_queue) :
                               player_queue[i][1] = c}) <= 1
            /\ Cardinality({i \in 1..Len(spectators) : spectators[i] = c}) <= 1

\* C17 happens: two spectators have been promoted, and the first of them is
\* queued, with its connection still open
C17_Promoted ==
    /\ mlast = MainStep("promote", "promoted")
    /\ Live(willing_spectators[1])
    /\ InQueue(willing_spectators[1])
    /\ InQueue(willing_spectators[2])


\* C15: when the lobby thread runs notify_spectators, every spectator that is
\* in the list when the loop starts and whose connection takes the send is
\* sent the broadcast, also when the send to another spectator fails and
\* that one is removed.
C15_BroadcastReachesAll ==
    [][(lpc = "notifying" /\ lpc' = "accept")
          => \A i \in 1..Len(spectators) :
                connStatus[spectators[i]] # "peer_closed"
                   => InList(llast'.delivered, spectators[i])]_vars


\* the step is one of main's loop, of the lobby thread
MainStepTaken == mpc' # mpc \/ mlast' # mlast
LobbyStepTaken == lpc' # lpc \/ llast' # llast

\* C16: the spectator list is changed only under spectators_lock: no step of
\* one thread changes it while the other thread holds the lock.
C16_SpectatorsUnderLock ==
    [][spectators' # spectators
          => /\ MainStepTaken => spectators_lock # "lobby"
             /\ LobbyStepTaken => spectators_lock # "main"]_vars


\* C13: the user ids handed out, by the lobby thread for a new player and by
\* main for a promoted spectator, grow strictly: the ids of the queued
\* players increase along the queue, and none is handed out twice.
C13_IdsStrictlyIncrease ==
    \A i \in 1..Len(player_queue) : \A j \in 1..Len(player_queue) :
        i < j => player_queue[i][2] < player_queue[j][2]


\* the lobby thread has dealt with a reply that is not new (or n), not
\* spectator (or s), and not the digits of a disconnected user id
BadReplyStep ==
    /\ lpc = "classify"
    /\ llast'.op = "classify"
    /\ llast'.outcome \notin {"no_packet", "queued", "spectator", "token_prompt"}

\* C18: such a reply is rejected: the connection is closed by the server and
\* the thread goes back to accept; the queue, the spectator list and the id
\* counter are as they were.
C18_BadReplyRejected ==
    [][BadReplyStep
          => /\ llast'.outcome = "rejected"
             /\ connStatus'[lconn] = "closed"
             /\ lpc' = "accept"
             /\ UNCHANGED <<player_queue, spectators, unique_id_counter>>]_vars


(***************************************************************************)
(* Progress of the lobby thread, under SpecServerLive.                     *)
(***************************************************************************)
\* the lobby thread has accepted client c and is past the receive of its reply
Classified(c) == nextConn > c /\ ~(lconn = c /\ lpc = "classify")

\* C12: every client that connects and sends its reply is classified in the
\* end, whatever the clients before it do: unless the server is shut down or
\* an exception has ended the lobby thread, each of the clients either is one
\* that sends nothing, or gets past the lobby's receive.
C12_EveryClientClassified ==
    \A c \in 1..MaxClients :
        <>(\/ connStatus[c] = "silent"
           \/ Classified(c)
           \/ mpc = "join"
           \/ lpc = "dead")


(***************************************************************************)
(* The board on its own: the ships of SHIPS are placed one after the other *)
(* at a start cell and an orientation drawn as place_ships_randomly draws  *)
(* them (battleship.py:47-58), each by do_place_ship once can_place_ship   *)
(* has returned True; the board that holds them all is fired at, at any    *)
(* cell, as often as wanted.  The board is board[1].                       *)
(***************************************************************************)
BoardStep(op, row, col, outcome, name) ==
    [op |-> op, player |-> 1, kind |-> "call", outcome |-> outcome,
     row |-> row, col |-> col, sunk_ship_name |-> name]

\* one pass of the while loop of lines 46-58
BoardPlace ==
    /\ Len(board[1].placed_ships) < Len(SHIPS)
    /\ LET k == Len(board[1].placed_ships) + 1
       IN \E orientation \in 0..1, row \in Idx, col \in Idx :
          IF can_place_ship(board[1], row, col, SHIPS[k][2], orientation)
          THEN /\ board' = [board EXCEPT ![1] =
                               do_place_ship(board[1], row, col, SHIPS[k][2],
                                             orientation, SHIPS[k][1])]
               /\ elast' = BoardStep("place", row, col, "placed", SHIPS[k][1])
          ELSE /\ board' = board
               /\ elast' = BoardStep("place", row, col, "retry", SHIPS[k][1])
    /\ UNCHANGED <<pc, place, freshBoard, current_turn, timeout_counts, missed,
                   game_running, conn, user_id, saved_file, outbox>>
    /\ UNCHANGED <<connStatus, active_players, disconnected_players, issued>>
    /\ UNCHANGED mainVars
    /\ UNCHANGED lobbyVars
    /\ UNCHANGED <<codec, client>>

\* a call of fire_at on the board with all its ships
BoardFire ==
    /\ Len(board[1].placed_ships) = Len(SHIPS)
    /\ \E row \in Idx, col \in Idx :
       \E shot \in {fire_at(board[1], row, col)} :
          /\ board' = [board EXCEPT ![1] = shot.board]
          /\ elast' = BoardStep("fire_at", row, col, shot.result,
                                shot.sunk_ship_name)
    /\ UNCHANGED <<pc, place, freshBoard, current_turn, timeout_counts, missed,
                   game_running, conn, user_id, saved_file, outbox>>
    /\ UNCHANGED <<connStatus, active_players, disconnected_players, issued>>
    /\ UNCHANGED mainVars
    /\ UNCHANGED lobbyVars
    /\ UNCHANGED <<codec, client>>

NextBoard == BoardPlace \/ BoardFire

SpecBoard == InitServer /\ [][NextBoard]_vars

\* the cells lie in one row, or in one column
InLine(cells) ==
    \/ \A p \in cells : \A q \in cells : p[1] = q[1]
    \/ \A p \in cells : \A q \in cells : p[2] = q[2]

\* C21: a placement made by do_place_ship after can_place_ship returned True
\* adds one ship of the length asked for: as many cells as its length, all
\* on the grid, in one row or one column, all water before and ship after;
\* after it no cell belongs to two ships.
C21_PlacedShipsApart ==
    [][(elast'.op = "place" /\ elast'.outcome = "placed")
          => LET k == Len(board[1].placed_ships) + 1
                 ships == board'[1].placed_ships
                 cells == ships[k].positions
             IN  /\ Len(ships) = k
                 /\ ships[k].name = SHIPS[k][1]
                 /\ Cardinality(cells) = SHIPS[k][2]
                 /\ cells \subseteq Cells
                 /\ InLine(cells)
                 /\ \A rc \in cells : /\ board[1].hidden_grid[rc] = "."
                                      /\ board'[1].hidden_grid[rc] = "S"
                 /\ \A rc \in Cells \ cells :
                       board'[1].hidden_grid[rc] = board[1].hidden_grid[rc]
                 /\ \A i \in 1..k : \A j \in 1..k :
                       i # j => ships[i].positions \cap ships[j].positions = {}]_vars

\* C21 happens: every ship of SHIPS is placed, the first of them in a column
C21_AllPlaced ==
    /\ elast.op = "place"
    /\ elast.outcome = "placed"
    /\ Len(board[1].placed_ships) = Len(SHIPS)
    /\ \E p \in board[1].placed_ships[1].positions :
       \E q \in board[1].placed_ships[1].positions : p[1] # q[1]


\* b and after differ at most in the cell rc of the two grids
SameElsewhere(b, after, rc) ==
    \A other \in Cells \ {rc} :
        /\ after.hidden_grid[other] = b.hidden_grid[other]
        /\ after.display_grid[other] = b.display_grid[other]

\* C30: on a water cell fire_at returns miss with no name, marks the cell 'o'
\* on both grids and leaves the ships as they are; on a ship cell it returns
\* hit, marks the cell 'X' on both grids, takes the cell out of the positions
\* of the one ship that holds it and of no other, and names that ship if and
\* only if no position of it is left; no other cell changes.
C30_FireAtMarks ==
    \A rc \in Cells :
        LET b == board[1]
            shot == fire_at(b, rc[1], rc[2])
            ships == b.placed_ships
            left == shot.board.placed_ships
            holders == {i \in 1..Len(ships) : rc \in ships[i].positions}
        IN  /\ b.hidden_grid[rc] = "."
               => /\ shot.result = "miss"
                  /\ shot.sunk_ship_name = None
                  /\ shot.board.hidden_grid[rc] = "o"
                  /\ shot.board.display_grid[rc] = "o"
                  /\ left = ships
                  /\ SameElsewhere(b, shot.board, rc)
            /\ b.hidden_grid[rc] = "S"
               => /\ shot.result = "hit"
                  /\ shot.board.hidden_grid[rc] = "X"
                  /\ shot.board.display_grid[rc] = "X"
                  /\ SameElsewhere(b, shot.board, rc)
                  /\ Cardinality(holders) = 1
                  /\ Len(left) = Len(ships)
                  /\ \A i \in 1..Len(ships) :
                        /\ left[i].name = ships[i].name
                        /\ left[i].positions = ships[i].positions \ {rc}
                        /\ i \in holders
                           => shot.sunk_ship_name =
                                 IF left[i].positions = {} THEN ships[i].name
                                 ELSE None

\* C30 happens: a shot has sunk the ship of two cells, on a board that shows
\* a miss as well
C30_SunkByShot ==
    /\ elast.op = "fire_at"
    /\ elast.outcome = "hit"
    /\ elast.sunk_ship_name = SHIPS[1][1]
    /\ \E rc \in Cells : board[1].hidden_grid[rc] = "o"


(***************************************************************************)
(* Properties of the turns, under Spec.                                    *)
(***************************************************************************)
\* the step sends connection c a message whose tag is head
SentNext(c, head) ==
    \E i \in 1..Len(outbox') : outbox'[i].to = c /\ outbox'[i].msg[1] = head

\* the receive of the turn of the player in turn has timed out
TimeoutStep == pc = "fire" /\ elast'.op = "fire" /\ elast'.kind = "timeout"

\* C25: when the receive of a turn times out and the counter of the player in
\* turn is 0, the counter becomes 1 and the other player's stays, the turn
\* passes to the other player, who is prompted to fire, no board and no
\* observer board changes, and the match goes on.
C25_FirstTimeoutSkips ==
    [][(TimeoutStep /\ timeout_counts[current_turn] = 0)
          => /\ timeout_counts'[current_turn] = 1
             /\ timeout_counts'[3 - current_turn] = timeout_counts[3 - current_turn]
             /\ current_turn' = 3 - current_turn
             /\ UNCHANGED <<board, freshBoard>>
             /\ pc' = "fire"
             /\ game_running'
             /\ elast'.outcome = "skip"
             /\ connStatus'[conn[3 - current_turn]] # "closed"
                   => SentNext(conn[3 - current_turn], "fire_prompt")
             /\ ~SentNext(conn[current_turn], "fire_prompt")]_vars

\* C25 happens: a turn was skipped on a first timeout, in a match in which a
\* shot has hit
C25_TurnSkipped ==
    /\ elast.op = "fire"
    /\ elast.kind = "timeout"
    /\ elast.outcome = "skip"
    /\ timeout_counts[elast.player] = 1
    /\ current_turn = 3 - elast.player
    /\ \E k \in 1..2 : \E rc \in Cells : board[k].hidden_grid[rc] = "X"


\* the step resolves a shot of the player in turn as a hit or a miss
ShotStep == pc = "fire" /\ elast'.op = "fire" /\ elast'.outcome \in {"hit", "miss"}

\* C26: a resolved shot that does not end the match passes the turn to the
\* other player, who gets the next fire prompt; and the turn leaves a player
\* who has not resolved a shot only when the receive of that turn timed out,
\* so a player resolves two shots in a row only across a turn of the opponent
\* that a timeout skipped.
C26_TurnsAlternate ==
    [][/\ (ShotStep /\ pc' = "fire")
          => /\ current_turn' = 3 - current_turn
             /\ connStatus'[conn[3 - current_turn]] # "closed"
                   => SentNext(conn[3 - current_turn], "fire_prompt")
             /\ ~SentNext(conn[current_turn], "fire_prompt")
       /\ (pc = "fire" /\ current_turn' # current_turn /\ ~ShotStep)
          => TimeoutStep]_vars

ShipsListed(b) ==
    /\ Len(b.placed_ships) = Len(SHIPS)
    /\ \A k \in 1..Len(SHIPS) : b.placed_ships[k].name = SHIPS[k][1]

\* every ship of SHIPS is on the board b, in the order of SHIPS, each with as
\* many cells as its size, all of them ship cells of the hidden grid
AllShipsPlaced(b) ==
    /\ Len(b.placed_ships) = Len(SHIPS)
    /\ \A k \in 1..Len(SHIPS) :
          /\ b.placed_ships[k].name = SHIPS[k][1]
          /\ Cardinality(b.placed_ships[k].positions) = SHIPS[k][2]
          /\ b.placed_ships[k].positions \subseteq Cells

\* the step that leaves the placement phase for the fire phase
FirePhaseStarts == pc \in {"place_coord", "place_orient"} /\ pc' = "fire"

\* C28: player 2 places only after player 1 has placed every ship; no fire
\* prompt is sent before both have placed every ship and the first snapshot
\* is saved; the step that starts the fire phase is player 2's last valid
\* placement, it saves the snapshot with turn 1, timeout counts 0 and 0 and
\* both user ids, and it prompts player 1 and not player 2.
C28_FireAfterPlacement ==
    /\ [](place.player = 2 => AllShipsPlaced(board[1]))
    /\ [](board[2].placed_ships # <<>> => ShipsListed(board[1]))
    /\ []((pc = "fire" \/ \E c \in ConnIds : SentTag(c, "fire_prompt"))
              => (ShipsListed(board[1]) /\ ShipsListed(board[2])
                  /\ saved_file # <<>>))
    /\ [][FirePhaseStarts
            => /\ elast'.op = "place" /\ elast'.player = 2
               /\ elast'.outcome = "placed_all"
               /\ AllShipsPlaced(board'[1]) /\ AllShipsPlaced(board'[2])
               /\ saved_file' = <<[board |-> board', freshBoard |-> freshBoard',
                                    current_turn |-> 1,
                                    timeout_counts |-> [i \in 1..2 |-> 0],
                                    user_id1 |-> user_id[1],
                                    user_id2 |-> user_id[2]]>>
               /\ current_turn' = 1
               /\ timeout_counts' = [i \in 1..2 |-> 0]
               /\ SentNext(conn[1], "fire_prompt")
               /\ ~SentNext(conn[2], "fire_prompt")]_vars

\* C28 happens: the fire phase has just started and player 1 holds the first
\* fire prompt
C28_FirstPrompt ==
    /\ pc = "fire"
    /\ elast.op = "place" /\ elast.outcome = "placed_all" /\ elast.player = 2
    /\ SentTag(conn[1], "fire_prompt")
    /\ saved_file # <<>>


\* the step reads a reply of the placement phase and takes it as invalid
InvalidPlacementStep ==
    /\ elast'.op = "place"
    /\ elast'.outcome \in {"empty", "invalid", "invalid_orientation", "cannot_place"}

\* the step reads the quit command in the placement phase
QuitPlacementStep ==
    /\ pc \in {"place_coord", "place_orient"}
    /\ elast'.op = "place"
    /\ elast'.quit

\* the board and the ship in hand stay and the same ship is prompted again
SameShipAgain ==
    /\ UNCHANGED <<board, freshBoard, saved_file>>
    /\ place'.player = place.player
    /\ place'.ship = place.ship
    /\ pc' = "place_coord"
    /\ \E i \in 1..Len(outbox') :
          /\ outbox'[i] = Msg(conn[place.player],
                              <<"placing", SHIPS[place.ship][1]>>)
          /\ i < Len(outbox')
          /\ outbox'[i + 1] = Msg(conn[place.player], <<"enter_coord">>)

\* C29, first half: a reply of the placement phase that is no quit command
\* and is an invalid coordinate, an invalid orientation or a position where
\* the ship cannot go leaves the board and the placed ships as they are, and
\* the same ship is prompted again.
C29_InvalidReprompts ==
    [][(InvalidPlacementStep /\ ~elast'.quit) => SameShipAgain]_vars

\* C29: the first half, and a quit command read in the placement phase ends
\* the match in that step, with the board as it is; an ended match stays
\* ended, so the fire phase is not entered.
C29_QuitEndsPlacement ==
    /\ C29_InvalidReprompts
    /\ [][QuitPlacementStep
            => /\ pc' = "done"
               /\ UNCHANGED <<board, freshBoard, saved_file>>
               /\ SentNext(conn[place.player], "game_over_quit")]_vars
    /\ [][pc = "done" => pc' = "done"]_vars

\* C29 happens: a ship was refused where it overlaps a ship placed before
C29_Refused ==
    /\ elast.op = "place"
    /\ elast.outcome = "cannot_place"
    /\ board[elast.player].placed_ships # <<>>
    /\ place.ship = 2


(***************************************************************************)
(* Properties of the return of a disconnected player, under SpecReconnect. *)
(***************************************************************************)
\* after the step the match runs in the fire phase with the boards, the
\* observer boards, the turn and the timeout counts of the snapshot on file
ContinuesFromSnapshot ==
    /\ pc' = "fire"
    /\ game_running'
    /\ saved_file' # <<>>
    /\ board' = saved_file'[1].board
    /\ freshBoard' = saved_file'[1].freshBoard
    /\ current_turn' = saved_file'[1].current_turn
    /\ timeout_counts' = saved_file'[1].timeout_counts

\* C22: a disconnected player comes back and the match continues from the
\* snapshot: the engine's wait for the player, unless it ends without a
\* connection, and a reconnection with the player's token at the lobby both
\* leave the match running with boards, observer boards, turn and timeout
\* counts equal to the last snapshot saved.
C22_ReturnRestoresSnapshot ==
    [][/\ (pc = "disc" /\ elast'.op = "wait" /\ elast'.kind # "none")
          => ContinuesFromSnapshot
       /\ (TokenStep /\ InDisconnected(luser) /\ llast'.given = issued[luser])
          => ContinuesFromSnapshot]_vars


(***************************************************************************)
(* Properties of matches side by side, under SpecMatches.                  *)
(***************************************************************************)
\* the match of the first pair is in progress
MatchInProgress == mpc = "in_game" /\ pc # "done"

\* two players wait in the queue for a match of their own
PairWaiting == Len(player_queue) >= 2

\* C23: a pair that waits in the queue while a match is in progress is taken
\* from the queue for its own match, whether or not the match in progress
\* ever finishes.
C23_SecondPairStarts ==
    (PairWaiting /\ MatchInProgress) ~> (~PairWaiting \/ ~MatchInProgress)


(***************************************************************************)
(* Properties of the calls of notify_spectators, under SpecServerLive.     *)
(***************************************************************************)
\* the lobby thread has called notify_spectators and the call has not
\* returned: it waits for spectators_lock, or holds it and sends
InNotify == lpc \in {"spectator_notify", "notifying"}

\* C24: a call of notify_spectators returns, whatever the spectators do and
\* also while ask_spectators_to_play waits for a spectator's answer.
C24_NotifyReturns == InNotify ~> ~InNotify


(***************************************************************************)
(* Properties of the cells of the boards, under Spec.                      *)
(***************************************************************************)
\* the change of one cell from one state to the next is one the board allows
CellMove(old, new) ==
    \/ new = old
    \/ old = "." /\ new \in {"S", "o"}
    \/ old = "S" /\ new = "X"

\* C31: over every step of a match, placements and shots alike, a cell of a
\* player's board (hidden grid and display grid) becomes a hit only from
\* ship and a miss only from water, and a cell that is a hit or a miss stays
\* what it is.
C31_CellsNeverRevert ==
    [][\A n \in 1..2 : \A rc \in Cells :
          /\ CellMove(board[n].hidden_grid[rc], board'[n].hidden_grid[rc])
          /\ CellMove(board[n].display_grid[rc], board'[n].display_grid[rc])]_vars

\* C31 happens: a board shows a hit and a miss, and a shot at a cell already
\* revealed has just been resolved
C31_RevealedKept ==
    /\ elast.op = "fire" /\ elast.outcome = "already_shot"
    /\ \E n \in 1..2 : \E p \in Cells : \E q \in Cells :
          board[n].hidden_grid[p] = "X" /\ board[n].hidden_grid[q] = "o"

\* the cells of b that some placed ship still holds
Remaining(b) ==
    UNION {b.placed_ships[i].positions : i \in 1..Len(b.placed_ships)}

\* C37: on every board a cell of the hidden grid is a ship cell exactly when
\* a placed ship holds it among its remaining positions, and all_ships_sunk
\* is true exactly when the grid has no ship cell left.
C37_ShipCellsAreRemaining ==
    \A n \in 1..2 :
       /\ \A rc \in Cells :
             board[n].hidden_grid[rc] = "S" <=> rc \in Remaining(board[n])
       /\ all_ships_sunk(board[n])
             <=> \A rc \in Cells : board[n].hidden_grid[rc] # "S"

\* C37 happens: a board with every ship placed has lost its last ship cell
C37_AllSunk ==
    \E n \in 1..2 :
       /\ ShipsListed(board[n])
       /\ all_ships_sunk(board[n])
       /\ elast.op = "fire" /\ elast.outcome = "win"


(***************************************************************************)
(* Properties of what players and spectators are shown, under Spec.        *)
(***************************************************************************)
\* the grid shows the shots at the board b and nothing else
ShowsShotsOf(grid, b) ==
    \A rc \in Cells :
       /\ grid[rc] = "X" <=> b.hidden_grid[rc] = "X"
       /\ grid[rc] = "o" <=> b.hidden_grid[rc] = "o"
       /\ grid[rc] # "S"

\* the same of a text of get_display_grid
TextShowsShotsOf(text, b) ==
    \A rc \in Cells :
       /\ ShownAt(text, rc) = 88 <=> b.hidden_grid[rc] = "X"
       /\ ShownAt(text, rc) = 111 <=> b.hidden_grid[rc] = "o"
       /\ ShownAt(text, rc) # 83

\* C35: in every state of the fire phase the observer board of each player's
\* board shows a hit or a miss exactly where that board is hit or missed and
\* shows no ship, and so does every firing board sent to a player in the
\* step before.
C35_FiringBoardShowsShots ==
    pc \in {"fire", "disc", "done"} =>
       /\ \A n \in 1..2 : ShowsShotsOf(freshBoard[n].display_grid, board[n])
       /\ \A i \in 1..Len(outbox) : \A k \in 1..2 :
             (outbox[i].msg[1] = "firing_board" /\ outbox[i].to = conn[k])
                => TextShowsShotsOf(outbox[i].msg[2], board[Other(k)])

\* C35 happens: a firing board with a hit and a miss on it has been sent
\* while the board it is about still has a ship cell
C35_BoardSent ==
    /\ pc = "fire"
    /\ \E i \in 1..Len(outbox) : \E k \in 1..2 :
          /\ outbox[i].msg[1] = "firing_board" /\ outbox[i].to = conn[k]
          /\ \E p \in Cells : \E q \in Cells : \E r \in Cells :
                /\ ShownAt(outbox[i].msg[2], p) = 88
                /\ ShownAt(outbox[i].msg[2], q) = 111
                /\ board[Other(k)].hidden_grid[r] = "S"

\* C36: no board text sent to the spectators shows a ship cell: the texts
\* show water, hits and misses.
C36_SpectatorsSeeNoShip ==
    \A i \in 1..Len(outbox) :
       (outbox[i].to = 0 /\ outbox[i].msg[1] = "board")
          => \A rc \in Cells : ShownAt(outbox[i].msg[3], rc) \in {46, 88, 111}

\* the step answers a coordinate that is not valid
InvalidCoordinateStep ==
    pc = "fire" /\ elast'.op = "fire" /\ elast'.outcome = "invalid"

\* C34: the notice of an invalid coordinate goes to the player who sent the
\* coordinate, player 1 or player 2, and not to the opponent.
C34_NoticeToSender ==
    [][InvalidCoordinateStep
          => /\ SentNext(conn[current_turn], "invalid_coordinate")
             /\ ~SentNext(conn[3 - current_turn], "invalid_coordinate")]_vars


(***************************************************************************)
(* The transport reader on a stream of bytes: a client's frames arrive on  *)
(* one connection, a call of receive_packet sees as many of the unread     *)
(* bytes as have arrived when its recv gives up (socket.timeout) or the    *)
(* peer has closed, and what it has read is gone from the socket.          *)
(***************************************************************************)
\* payloads of the frames of the stream
ReaderTexts == {T_A1, T_H}
\* largest payload length a header of the stream declares
MaxDeclared == 3

\* a frame as create_packet lays it out (server.py:84-92), its header
\* declaring `declared` payload bytes and its checksum taken over the header
\* and the payload bytes that follow
Frame(sequence_number, packet_type, payload, declared) ==
    LET payload_bytes == encode_utf8(caesar_encrypt(payload, SHARED_KEY))
        header == PackH(sequence_number) \o PackB(packet_type) \o PackI(declared)
    IN  header \o PackW(crc32(header \o payload_bytes)) \o payload_bytes

\* the bytes one call of receive_packet takes from the socket when `bytes`
\* are there for it: lines 204-211 and 215-224
Consumed(bytes) ==
    IF Len(bytes) < 11 THEN Len(bytes)
    ELSE 11 + Min(UnpackI(SubSeq(bytes, 4, 7)), Len(bytes) - 11)

InitReader ==
    /\ ServerStarted
    /\ client = ClientOff
    /\ \E t1 \in ReaderTexts, t2 \in ReaderTexts, d \in 0..MaxDeclared :
       \E first \in {Frame(0, 6, t1, d)}, second \in {create_packet(0, 6, t2)} :
       \E sent \in 11..(Len(first) + Len(second)) :
          codec = [stage |-> "bytes", texts |-> <<t1, t2>>, declared |-> d,
                   actual |-> Len(first) - 11, first |-> first,
                   total |-> Len(first) + Len(second),
                   stream |-> SubSeq(first \o second, 1, sent),
                   pos |-> 0,
                   last |-> [start |-> 0, seen |-> 0, then |-> "none",
                             result |-> None]]

\* parse_packet on the first frame as it stands
ReaderDecode ==
    /\ codec.stage = "bytes"
    /\ codec' = [codec EXCEPT !.stage = "decoded",
                              !.last = [start |-> 0, seen |-> Len(codec.first),
                                        then |-> "none",
                                        result |-> parse_packet(codec.first)]]
    /\ UNCHANGED <<connStatus, active_players, disconnected_players, issued>>
    /\ UNCHANGED engineVars
    /\ UNCHANGED lobbyVars
    /\ UNCHANGED mainVars
    /\ UNCHANGED client

\* one call of receive_packet: `seen` of the unread bytes are there for it,
\* then the timeout expires or, all that was sent being read, recv returns
\* b'' because the peer has closed
ReaderReceive ==
    /\ codec.stage \in {"bytes", "reading"}
    /\ LET unread == SubSeq(codec.stream, codec.pos + 1, Len(codec.stream))
       IN \E seen \in 0..Len(unread) :
          \E then \in {"timeout"} \cup (IF seen = Len(unread) THEN {"closed"} ELSE {}) :
          \E bytes \in {SubSeq(unread, 1, seen)} :
          \E result \in {receive_packet([bytes |-> bytes, then |-> then])} :
             codec' = [codec EXCEPT
                          !.stage = "reading",
                          !.pos = @ + Consumed(bytes),
                          !.last = [start |-> codec.pos, seen |-> seen,
                                    then |-> then, result |-> result]]
    /\ UNCHANGED <<connStatus, active_players, disconnected_players, issued>>
    /\ UNCHANGED engineVars
    /\ UNCHANGED lobbyVars
    /\ UNCHANGED mainVars
    /\ UNCHANGED client

NextReader ==
    \/ ReaderDecode
    \/ ReaderReceive

SpecReader == InitReader /\ [][NextReader]_vars

\* C32: parse_packet returns no frame for a byte string whose header
\* declares another payload length than the bytes that follow it, and
\* receive_packet returns None when the peer closes before the payload
\* bytes the header declares have arrived.
C32_LengthMismatchRejected ==
    /\ (codec.stage = "decoded" /\ codec.declared # codec.actual)
          => codec.last.result = None
    /\ (/\ codec.stage = "reading"
        /\ codec.last.start = 0
        /\ codec.last.then = "closed"
        /\ codec.last.seen - 11 < codec.declared)
          => codec.last.result = None

\* C33: every call of receive_packet starts at the first byte of a frame
\* (or with nothing left to read), also after a call that gave up in the
\* middle of a frame; it takes no byte beyond the frame it starts in, and a
\* frame that is there in full when the call starts on it is returned as
\* it was sent.
C33_ReaderKeepsBoundary ==
    (codec.stage = "reading" /\ codec.declared = codec.actual) =>
       LET end1 == Len(codec.first)
           sent == Len(codec.stream)
       IN  /\ codec.pos \in {0, end1, sent}
           /\ codec.last.start < end1 => codec.pos <= end1
           /\ (codec.last.start = end1 /\ sent = codec.total
               /\ codec.last.seen = sent - end1)
                 => codec.last.result = <<0, 6, codec.texts[2]>>


C40_MainTerminates ==
    (mpc = "join" /\ mlast.outcome = "KeyboardInterrupt") ~> (mpc = "returned")


(***************************************************************************)
(* The client (client.py): the main thread (lines 104-133) and the         *)
(* receiver thread (receive_messages, lines 56-82) share the globals       *)
(* Running and Waiting_for_input; no lock guards them.  The server at the  *)
(* other end sends a prompt and then waits for the reply to it; it may     *)
(* send a notice at any time, and it may close.                            *)
(***************************************************************************)
\* prompts the server sends to one client
MaxPrompts == 3
\* messages without a prompt the server sends to one client
MaxNotices == 1

\* what the user types at input(">> ")
ClientTexts == {T_A1, T_quit}

\* the test of lines 68-76 on a message of the server
IsPrompt(message) == message = "prompt"

InitClient ==
    /\ ServerStarted
    /\ codec = CodecOff
    /\ client = [Running |-> TRUE, Waiting_for_input |-> FALSE,
                 main |-> "while", receiver |-> "while",
                 sequence_number |-> 0, user_input |-> <<>>, replies |-> <<>>,
                 sock |-> <<>>, server |-> "idle",
                 prompts |-> 0, asked |-> 0, notices |-> 0]

ClientOnly ==
    /\ UNCHANGED <<connStatus, active_players, disconnected_players, issued>>
    /\ UNCHANGED engineVars
    /\ UNCHANGED lobbyVars
    /\ UNCHANGED mainVars
    /\ UNCHANGED codec

\* the server sends a prompt when it is not waiting for a reply, or a notice
ClientServerSend ==
    /\ client.main # "off"
    /\ client.server # "closed"
    /\ \/ /\ client.server = "idle"
          /\ client.asked < MaxPrompts
          /\ client' = [client EXCEPT !.sock = Append(@, "prompt"),
                                      !.server = "awaiting",
                                      !.asked = @ + 1]
       \/ /\ client.notices < MaxNotices
          /\ client' = [client EXCEPT !.sock = Append(@, "notice"),
                                      !.notices = @ + 1]
    /\ ClientOnly

\* the server closes the connection
ClientServerClose ==
    /\ client.main # "off"
    /\ client.server # "closed"
    /\ client' = [client EXCEPT !.sock = Append(@, "eof"),
                                !.server = "closed"]
    /\ ClientOnly

\* client.py:57
ReceiverWhile ==
    /\ client.receiver = "while"
    /\ client' = [client EXCEPT
                     !.receiver = IF client.Running THEN "recv" ELSE "done"]
    /\ ClientOnly

\* client.py:59-82: receive_packet blocks until a message is there; it
\* raises when main has closed the socket
ReceiverRecv ==
    /\ client.receiver = "recv"
    /\ IF client.main = "done"
       THEN client' = [client EXCEPT !.Running = FALSE, !.receiver = "done"]
       ELSE /\ client.sock # <<>>
            /\ LET message == Head(client.sock)
               IN  IF message = "eof"
                   THEN client' = [client EXCEPT !.sock = Tail(@),
                                                 !.Running = FALSE,
                                                 !.receiver = "done"]
                   ELSE IF IsPrompt(message)
                   THEN client' = [client EXCEPT !.sock = Tail(@),
                                                 !.Waiting_for_input = TRUE,
                                                 !.prompts = @ + 1,
                                                 !.receiver = "while"]
                   ELSE client' = [client EXCEPT !.sock = Tail(@),
                                                 !.receiver = "while"]
    /\ ClientOnly

\* client.py:113, and the finally clause of lines 130-133 when the loop ends
MainWhile ==
    /\ client.main = "while"
    /\ client' = [client EXCEPT
                     !.main = IF client.Running THEN "if" ELSE "done"]
    /\ ClientOnly

\* client.py:114
MainIf ==
    /\ client.main = "if"
    /\ client' = [client EXCEPT
                     !.main = IF client.Waiting_for_input THEN "input"
                              ELSE "while"]
    /\ ClientOnly

\* client.py:115
MainInput ==
    /\ client.main = "input"
    /\ \E text \in ClientTexts :
          client' = [client EXCEPT !.user_input = strip(text),
                                   !.main = "send"]
    /\ ClientOnly

\* client.py:116-117: sendall raises when the server has closed and the
\* error has reached the socket; no handler but the finally clause
MainSend ==
    /\ client.main = "send"
    /\ \/ client' = [client EXCEPT
                        !.replies = Append(@, client.user_input),
                        !.sequence_number = @ + 1,
                        !.server = IF @ = "awaiting" THEN "idle" ELSE @,
                        !.main = "clear"]
       \/ /\ client.server = "closed"
          /\ client' = [client EXCEPT !.main = "done"]
    /\ ClientOnly

\* client.py:118
MainClear ==
    /\ client.main = "clear"
    /\ client' = [client EXCEPT !.Waiting_for_input = FALSE,
                                !.main = "quit"]
    /\ ClientOnly

\* client.py:120-124
MainQuit ==
    /\ client.main = "quit"
    /\ IF lower(client.user_input) = T_quit
       THEN client' = [client EXCEPT !.Running = FALSE,
                                     !.Waiting_for_input = FALSE,
                                     !.main = "done"]
       ELSE client' = [client EXCEPT !.main = "while"]
    /\ ClientOnly

\* client.py:126-133: Ctrl-C in the main thread
ClientInterrupt ==
    /\ client.main \in {"while", "if", "input", "send", "clear", "quit"}
    /\ client' = [client EXCEPT !.Running = FALSE,
                                !.Waiting_for_input = FALSE,
                                !.main = "done"]
    /\ ClientOnly

NextClient ==
    \/ ClientServerSend
    \/ ClientServerClose
    \/ ReceiverWhile
    \/ ReceiverRecv
    \/ MainWhile
    \/ MainIf
    \/ MainInput
    \/ MainSend
    \/ MainClear
    \/ MainQuit
    \/ ClientInterrupt

\* both threads of the client run, and the user answers input(); the server
\* need not send anything and Ctrl-C need not come
SpecClient ==
    /\ InitClient
    /\ [][NextClient]_vars
    /\ WF_vars(ReceiverWhile)
    /\ WF_vars(ReceiverRecv)
    /\ WF_vars(MainWhile)
    /\ WF_vars(MainIf)
    /\ WF_vars(MainInput)
    /\ WF_vars(MainSend)
    /\ WF_vars(MainClear)
    /\ WF_vars(MainQuit)

\* C39: every prompt the receiver thread has handled lets the user send one
\* reply in the end: once the receiver has handled k prompts, the client
\* sends its k-th reply, unless the client stops (quit, Ctrl-C, the server
\* gone); this under every interleaving of the two threads.
C39_EveryPromptAnswered ==
    \A k \in 1..MaxPrompts :
        (client.main # "off" /\ client.prompts >= k)
            ~> (\/ client.sequence_number >= k
                \/ ~client.Running
                \/ client.main = "done")

=============================================================================
